---- MODULE Spec2Model ----
(***************************************************************************)
(* Model of debug_mcp: the Step Functions state-history reconstruction and *)
(* execution search (tools/stepfunctions.py) and the CloudWatch Logs       *)
(* Insights query poller (tools/cloudwatch_logs.py).                       *)
(*                                                                         *)
(* Texts (state names, payloads, regex sources) are sequences of one-      *)
(* character strings; Python's None is the value None below, which is no   *)
(* text over the alphabet.                                                 *)
(***************************************************************************)
EXTENDS Integers, Sequences, FiniteSets, TLC

VARIABLES
    \* parse_state_history applied to one event list
    history, parsed, parsePc,
    \* one search_executions call
    searchPc, args, executions, idx, definition, filtered, searchResult,
    listCalls, defCalls, detailCalls, fetchLog,
    \* one execute_log_insights_query call
    pollPc, queryId, waited, sleeps, polls, startCalls, lastStatus, lastLines,
    pollsAfterEnd, upstreamError, pollResult,
    \* one list_executions call
    listPc, listArgs, upstream, pageSize, offset, remaining, listExecutions,
    \* the run memory store and the handlers that use it
    memory, pending, published, lastStore, call, reply, memCalls,
    \* one JiraDebugger and its latest search_tickets call
    jira,
    \* one MCPProxy._extract_content call
    extracted,
    \* one load of the tool selection
    selection,
    \* one ToolRegistry and its latest execute call
    registry

parseVars == <<history, parsed, parsePc>>
searchVars == <<searchPc, args, executions, idx, definition, filtered, searchResult,
                listCalls, defCalls, detailCalls, fetchLog>>
pollVars == <<pollPc, queryId, waited, sleeps, polls, startCalls, lastStatus,
              lastLines, pollsAfterEnd, upstreamError, pollResult>>
listVars == <<listPc, listArgs, upstream, pageSize, offset, remaining, listExecutions>>
storeVars == <<memory, pending, published, lastStore, call, reply, memCalls>>
lateVars == <<jira, extracted, selection, registry>>
restVars == <<listVars, storeVars, lateVars>>
vars == <<parseVars, searchVars, pollVars, restVars>>

-----------------------------------------------------------------------------
(* Values *)

None == <<"<None>">>

\* Python truthiness of an optional text: None and "" are falsy.
Truthy(v) == v # None /\ v # <<>>

\* JSON-like values, tagged by their Python type.  A text is the sequence of
\* its symbols; the entries of a dict are <<key, value>> pairs in insertion
\* order.  Python's None is Null, whether it is a null leaf or a failed lookup.
Str(text) == <<"str", text>>
Num(n) == <<"num", n>>
Bool(b) == <<"bool", b>>
Null == <<"null">>
Dict(entries) == <<"dict", entries>>
List(items) == <<"list", items>>

\* Bounds of the model.
MaxEvents == 3
MaxExecutions == 3
MaxLines == 2

\* State names and payloads that occur in histories.
NameVa == <<"V", "a">>
NameVa2 == <<"V", "a", "2">>
NameShip == <<"S", "h">>
PayCid == <<"C", "i", "d">>
PayX == <<"x">>
PayOk == <<"o", "k">>

-----------------------------------------------------------------------------
(* parse_state_history *)

\* An event: its type (a sequence of words, "TaskStateEntered" is
\* <<"Task", "StateEntered">>), and the name and payload its details carry
\* (None where the details or the field are missing).
Event(type, name, payload) == [type |-> type, name |-> name, payload |-> payload]

TypeEntered == <<"Task", "StateEntered">>
TypeExited == <<"Task", "StateExited">>
TypeOther == <<"LambdaFunction", "Scheduled">>

\* `word in event_type`
Contains(type, word) == \E i \in 1..Len(type) : type[i] = word

RECURSIVE IndexOfName(_, _, _)
IndexOfName(result, name, i) ==
    IF i > Len(result) THEN 0
    ELSE IF result[i].name = name THEN i
    ELSE IndexOfName(result, name, i + 1)

\* result[state_name] on the defaultdict: a missing key is inserted, last in
\* insertion order, with empty inputs and outputs.
Touch(result, name) ==
    IF IndexOfName(result, name, 1) = 0
    THEN Append(result, [name |-> name, inputs |-> <<>>, outputs |-> <<>>])
    ELSE result

PrependPayload(result, name, isInput, payload) ==
    LET r == Touch(result, name)
        k == IndexOfName(r, name, 1)
    IN IF isInput
       THEN [r EXCEPT ![k].inputs = <<payload>> \o @]
       ELSE [r EXCEPT ![k].outputs = <<payload>> \o @]

\* result[state_name]["inputs" | "outputs"].append(payload)
AppendPayload(result, name, isInput, payload) ==
    LET r == Touch(result, name)
        k == IndexOfName(r, name, 1)
    IN IF isInput
       THEN [r EXCEPT ![k].inputs = Append(@, payload)]
       ELSE [r EXCEPT ![k].outputs = Append(@, payload)]

ParseEventAnyType(result, event) ==
    IF Contains(event.type, "StateExited")
    THEN IF Truthy(event.name) /\ Truthy(event.payload)
         THEN AppendPayload(result, event.name, FALSE, event.payload)
         ELSE result
    ELSE IF Truthy(event.name) /\ Truthy(event.payload)
         THEN AppendPayload(result, event.name, TRUE, event.payload)
         ELSE result

\* One iteration of the loop over the events.
ParseEvent(result, event) ==
    IF Contains(event.type, "StateEntered")
    THEN IF Truthy(event.name) /\ Truthy(event.payload)
         THEN AppendPayload(result, event.name, TRUE, event.payload)
         ELSE result
    ELSE IF Contains(event.type, "StateExited")
    THEN IF Truthy(event.name) /\ Truthy(event.payload)
         THEN AppendPayload(result, event.name, FALSE, event.payload)
         ELSE result
    ELSE result

RECURSIVE ParseFrom(_, _, _)
ParseFrom(result, events, i) ==
    IF i > Len(events) THEN result
    ELSE ParseFrom(ParseEvent(result, events[i]), events, i + 1)

\* The mapping is a sequence of entries [name, inputs, outputs] in the
\* insertion order of the keys.
ParseStateHistory(events) == ParseFrom(<<>>, events, 1)

\* states[name].get("inputs", []) and the like, and the keys of the mapping
StateKeys(states) == {states[i].name : i \in 1..Len(states)}
InputsOf(states, name) ==
    LET k == IndexOfName(states, name, 1) IN IF k = 0 THEN <<>> ELSE states[k].inputs
OutputsOf(states, name) ==
    LET k == IndexOfName(states, name, 1) IN IF k = 0 THEN <<>> ELSE states[k].outputs

\* The events the reconstruction is applied to. The details of an event, or
\* its input (output) field, can be missing; a payload that is present is JSON
\* text, which is never the empty string.
EventNames == {None, NameVa, NameShip}
EventPayloads == {None, PayCid, PayX}
Events ==
    {Event(t, n, p) : t \in {TypeEntered, TypeExited}, n \in EventNames, p \in EventPayloads}
    \cup {Event(TypeOther, NameVa, PayCid)}

RECURSIVE SeqsUpTo(_, _)
SeqsUpTo(S, n) ==
    IF n = 0 THEN {<<>>}
    ELSE LET shorter == SeqsUpTo(S, n - 1)
         IN shorter \cup {Append(s, x) : s \in shorter, x \in S}

\* The event list of the state-history ordering example:
\* Entered(A,i1), Entered(B,i2), Exited(A,o1), Entered(A,i3), Exited(B,o2), Exited(A,o3)
ExampleHistory ==
    << Event(TypeEntered, NameVa, <<"i", "1">>),
       Event(TypeEntered, NameShip, <<"i", "2">>),
       Event(TypeExited, NameVa, <<"o", "1">>),
       Event(TypeEntered, NameVa, <<"i", "3">>),
       Event(TypeExited, NameShip, <<"o", "2">>),
       Event(TypeExited, NameVa, <<"o", "3">>) >>

-----------------------------------------------------------------------------
(* Regular expressions: re.compile(pattern, re.IGNORECASE) and .search(text) *)

\* str.lower() on the letters of the alphabet in use.
Lower(c) ==
    IF c = "V" THEN "v"
    ELSE IF c = "S" THEN "s"
    ELSE IF c = "C" THEN "c"
    ELSE IF c = "O" THEN "o"
    ELSE IF c = "K" THEN "k"
    ELSE c

\* re.compile raises re.error on "[" that opens a set never closed
\* ("unterminated character set"), on "*" with nothing before it ("nothing to
\* repeat") and on "*" after "*" ("multiple repeat").
RegexValid(src) ==
    /\ \A i \in 1..Len(src) : src[i] # "["
    /\ \A i \in 1..Len(src) : src[i] = "*" => i > 1 /\ src[i - 1] # "*"

\* The compiled pattern: one atom per character, starred when "*" follows.
RECURSIVE Atoms(_, _)
Atoms(src, i) ==
    IF i > Len(src) THEN <<>>
    ELSE IF i < Len(src) /\ src[i + 1] = "*"
    THEN <<[ch |-> src[i], star |-> TRUE]>> \o Atoms(src, i + 2)
    ELSE <<[ch |-> src[i], star |-> FALSE]>> \o Atoms(src, i + 1)

\* "." matches any character; letters match without regard to case.
CharMatch(pch, c) == pch = "." \/ Lower(pch) = Lower(c)

RECURSIVE MatchHere(_, _, _, _)
MatchHere(atoms, i, text, j) ==
    IF i > Len(atoms) THEN TRUE
    ELSE IF atoms[i].star
    THEN \E k \in 0..(Len(text) - j + 1) :
            /\ \A m \in j..(j + k - 1) : CharMatch(atoms[i].ch, text[m])
            /\ MatchHere(atoms, i + 1, text, j + k)
    ELSE /\ j <= Len(text)
         /\ CharMatch(atoms[i].ch, text[j])
         /\ MatchHere(atoms, i + 1, text, j + 1)

\* pattern.search(text) of a pattern that compiled
RegexSearch(src, text) ==
    \E j \in 1..(Len(text) + 1) : MatchHere(Atoms(src, 1), 1, text, j)

-----------------------------------------------------------------------------
(* _matches_filters *)

\* list(states.keys())
KeyList(states) == [i \in 1..Len(states) |-> states[i].name]

\* [s for s in states.keys() if state_pattern.search(s)]
MatchingStates(states, state_name) ==
    LET Hit(s) == RegexSearch(state_name, s) IN SelectSeq(KeyList(states), Hit)

FoundAnywhere(states, states_to_check, pattern, isInput) ==
    \E i \in 1..Len(KeyList(states)) :
        LET payloads == IF isInput THEN InputsOf(states, KeyList(states)[i])
                        ELSE OutputsOf(states, KeyList(states)[i])
        IN \E k \in 1..Len(payloads) : RegexSearch(pattern, payloads[k])

\* The two nested loops with break over states_to_check and the payloads of
\* each: found_input (found_output).
Found(states, states_to_check, pattern, isInput) ==
    \E i \in 1..Len(states_to_check) :
        LET payloads == IF isInput THEN InputsOf(states, states_to_check[i])
                        ELSE OutputsOf(states, states_to_check[i])
        IN \E k \in 1..Len(payloads) : RegexSearch(pattern, payloads[k])

\* The output-pattern part: "error" when re.compile raises, else the verdict.
CheckOutput(states, states_to_check, output_pattern) ==
    IF ~Truthy(output_pattern) THEN "true"
    ELSE IF ~RegexValid(output_pattern) THEN "error"
    ELSE IF ~Found(states, states_to_check, output_pattern, FALSE) THEN "false"
    ELSE "true"

CheckInputForgotten(states, states_to_check, input_pattern, output_pattern) ==
    CheckOutput(states, states_to_check, output_pattern)

\* The input-pattern part, then the output-pattern part.
CheckInput(states, states_to_check, input_pattern, output_pattern) ==
    IF ~Truthy(input_pattern)
    THEN CheckOutput(states, states_to_check, output_pattern)
    ELSE IF ~RegexValid(input_pattern) THEN "error"
    ELSE IF ~Found(states, states_to_check, input_pattern, TRUE) THEN "false"
    ELSE CheckOutput(states, states_to_check, output_pattern)

\* _matches_filters: "true", "false", or "error" when a pattern does not
\* compile (re.error leaves the function).
MatchesFilters(states, state_name, input_pattern, output_pattern) ==
    IF Truthy(state_name)
    THEN IF ~RegexValid(state_name) THEN "error"
         ELSE LET matching_states == MatchingStates(states, state_name)
              IN IF matching_states = <<>> THEN "false"
                 ELSE CheckInput(states, matching_states, input_pattern, output_pattern)
    ELSE CheckInput(states, KeyList(states), input_pattern, output_pattern)

-----------------------------------------------------------------------------
(* Idle values of the parts *)

ParseIdle ==
    /\ history = <<>>
    /\ parsed = <<>>
    /\ parsePc = "idle"

NoArgs == [state_name |-> None, input_pattern |-> None, output_pattern |-> None,
           include_definition |-> FALSE]

SearchIdle ==
    /\ searchPc = "idle"
    /\ args = NoArgs
    /\ executions = <<>>
    /\ idx = 1
    /\ definition = None
    /\ filtered = <<>>
    /\ searchResult = <<>>
    /\ listCalls = 0
    /\ defCalls = 0
    /\ detailCalls = <<>>
    /\ fetchLog = <<>>

PollIdle ==
    /\ pollPc = "idle"
    /\ queryId = None
    /\ waited = 0
    /\ sleeps = 0
    /\ polls = 0
    /\ startCalls = 0
    /\ lastStatus = "None"
    /\ lastLines = <<>>
    /\ pollsAfterEnd = 0
    /\ upstreamError = "none"
    /\ pollResult = [queryId |-> None, status |-> "None", results |-> <<>>]

NoListArgs == [hours_back |-> 0, max_results |-> 0]

ListIdle ==
    /\ listPc = "idle"
    /\ listArgs = NoListArgs
    /\ upstream = <<>>
    /\ pageSize = 1
    /\ offset = 0
    /\ remaining = 0
    /\ listExecutions = <<>>

NoSummary == [name |-> Null, error |-> Null, total_tokens |-> Null, child_count |-> 0]

NoRun == [reference_id |-> <<>>, full_data |-> Null, summary |-> NoSummary,
          chunks |-> <<>>, embedded |-> FALSE]

NoCall == [op |-> "none", reference_id |-> <<>>, query |-> <<>>, search_type |-> "auto",
           max_results |-> 0, field_path |-> <<>>]

NoReply == [kind |-> "none", reference_id |-> <<>>, available_runs |-> <<>>,
            parent_path |-> <<>>, available_keys |-> <<>>, search_method |-> "none",
            results |-> <<>>, value |-> Null, summary |-> NoSummary]

\* The mapping before the latest store and the StoredRun it published.
NoStore == [before |-> <<>>, new |-> NoRun]

\* Two requests can be in flight at a time.
Writers == {1, 2}

StoreIdle ==
    /\ memory = <<>>
    /\ pending = [w \in Writers |-> [busy |-> FALSE, run |-> NoRun]]
    /\ published = {}
    /\ lastStore = NoStore
    /\ call = NoCall
    /\ reply = NoReply
    /\ memCalls = <<>>

NoJira == [pc |-> "idle", configured |-> FALSE, project |-> None, hasClient |-> FALSE,
           query |-> None, issue_type |-> None, status |-> None, assignee |-> None,
           hadClient |-> FALSE, requests |-> 0, jql |-> <<>>,
           result |-> [kind |-> "none", total |-> 0]]

NoExtract == [pc |-> "idle", content |-> <<>>, result |-> [kind |-> "none", value |-> Null]]

NoSelection == [pc |-> "idle", env |-> None, all |-> FALSE, names |-> {},
                tool_name |-> <<>>, exposed |-> FALSE]

NoEntry == [name |-> <<>>, handler |-> "none", arg_model |-> "None"]

NoRegistry == [pc |-> "new", tools |-> <<>>, registered |-> NoEntry, before |-> <<>>,
               tool_name |-> <<>>, arguments |-> {}, outcome |-> "none",
               available |-> <<>>, ran |-> "none", passed |-> {}]

LateIdle ==
    /\ jira = NoJira
    /\ extracted = NoExtract
    /\ selection = NoSelection
    /\ registry = NoRegistry

RestIdle == ListIdle /\ StoreIdle /\ LateIdle

-----------------------------------------------------------------------------
(* search_executions *)

TheDefinition == <<"definition">>
ErrHistory == <<"Failed to retrieve history">>
ErrExecution == <<"States.TaskFailed">>

\* What get_execution_details can do for one execution: raise, or return the
\* details of an execution with the given event history (and the execution's
\* own error, when it failed).
\* A failed fetch is of an execution that has a history all the same: the one
\* that would match every filter in use here.
DetailFail ==
    [ok |-> FALSE,
     events |-> << [type |-> <<"Task", "StateEntered">>, name |-> <<"V", "a">>,
                    payload |-> <<"C", "i", "d">>],
                   [type |-> <<"Task", "StateExited">>, name |-> <<"V", "a">>,
                    payload |-> <<"o", "k">>] >>,
     error |-> None]
DetailOk(events, error) == [ok |-> TRUE, events |-> events, error |-> error]

SampleHistories ==
    { \* the name-matching state carries the matching input and output
      << Event(TypeEntered, NameVa, PayCid), Event(TypeExited, NameVa, PayOk) >>,
      \* the matching payloads are in a state of another name
      << Event(TypeEntered, NameVa, PayX), Event(TypeEntered, NameShip, PayCid),
         Event(TypeExited, NameShip, PayOk) >>,
      \* the state was entered, its event carries no input
      << Event(TypeEntered, NameVa, None) >>,
      \* one name-matching state without inputs, another with the matching input
      << Event(TypeExited, NameVa, PayX), Event(TypeEntered, NameVa2, PayCid),
         Event(TypeExited, NameVa2, PayOk) >>,
      << Event(TypeEntered, NameShip, PayCid), Event(TypeExited, NameShip, PayOk) >> }

\* The last is an execution that failed before it entered a state.
DetailOutcomes ==
    {DetailFail} \cup {DetailOk(h, None) : h \in SampleHistories}
    \cup {DetailOk(<<>>, ErrExecution)}

StateNamePatterns == {None, <<>>, <<"v", "a", ".", "*">>, <<"[">>}
InputPatterns == {None, <<"c", "i", "d">>, <<"*">>}
OutputPatterns == {None, <<"O", "K">>}

\* An entry of the list list_executions returns; `has` holds the keys that
\* search_executions adds to it.
Listed(k) == [arn |-> k, has |-> {}, states |-> <<>>, error |-> None,
              stateMachineDefinition |-> None]

WithDefinitionUnguarded(execution, def) ==
    [execution EXCEPT !.has = @ \cup {"stateMachineDefinition"},
                      !.stateMachineDefinition = def]

WithDefinitionOrError(execution, def) ==
    IF Truthy(def)
    THEN [execution EXCEPT !.has = @ \cup {"stateMachineDefinition"},
                           !.stateMachineDefinition = def]
    ELSE [execution EXCEPT !.has = @ \cup {"error"}, !.error = ErrHistory]

\* `if definition: execution["stateMachineDefinition"] = definition`
WithDefinition(execution, def) ==
    IF Truthy(def)
    THEN [execution EXCEPT !.has = @ \cup {"stateMachineDefinition"},
                           !.stateMachineDefinition = def]
    ELSE execution

EnrichedWithoutHistory(execution, details, def) ==
    WithDefinition([execution EXCEPT !.has = @ \cup {"states"}, !.states = <<>>], def)

\* The body of the try block of the unfiltered loop, for details that arrived.
Enriched(execution, details, def) ==
    LET e1 == [execution EXCEPT !.has = @ \cup {"states"},
                                !.states = ParseStateHistory(details.events)]
        e2 == IF details.error # None
              THEN [e1 EXCEPT !.has = @ \cup {"error"}, !.error = details.error]
              ELSE e1
    IN WithDefinition(e2, def)

MarkedFailedWithoutError(execution) ==
    [execution EXCEPT !.has = @ \cup {"states"}, !.states = <<>>]

\* The except branch of the unfiltered loop.
MarkedFailed(execution) ==
    [execution EXCEPT !.has = @ \cup {"states", "error"},
                      !.states = <<>>, !.error = ErrHistory]

MergedWithoutHistory(execution, details, def) ==
    WithDefinition([execution EXCEPT !.has = @ \cup {"states"}, !.states = <<>>], def)

\* execution.update(details), then the definition.
Merged(execution, details, def) ==
    LET e1 == [execution EXCEPT !.has = @ \cup {"states"},
                                !.states = ParseStateHistory(details.events)]
        e2 == IF details.error # None
              THEN [e1 EXCEPT !.has = @ \cup {"error"}, !.error = details.error]
              ELSE e1
    IN WithDefinition(e2, def)

\* `not state_name and not input_pattern and not output_pattern`
NoContentFilter(a) ==
    ~Truthy(a.state_name) /\ ~Truthy(a.input_pattern) /\ ~Truthy(a.output_pattern)

\* The call and its list_executions step: the listing raises (and the call
\* with it) or returns n executions.
SearchList ==
    /\ searchPc = "idle"
    /\ \E sn \in StateNamePatterns, ip \in InputPatterns, op \in OutputPatterns,
          incl \in BOOLEAN :
          args' = [state_name |-> sn, input_pattern |-> ip, output_pattern |-> op,
                   include_definition |-> incl]
    /\ listCalls' = listCalls + 1
    /\ \/ /\ searchPc' = "raised"
          /\ UNCHANGED executions
       \/ \E n \in 0..MaxExecutions :
             /\ executions' = [k \in 1..n |-> Listed(k)]
             /\ searchPc' = "definition"
    /\ UNCHANGED <<idx, definition, filtered, searchResult, defCalls, detailCalls,
                   fetchLog, parseVars, pollVars, restVars>>

\* The definition step, and the choice of the path.
SearchDefinition ==
    /\ searchPc = "definition"
    /\ IF args.include_definition
       THEN /\ defCalls' = defCalls + 1
            /\ \/ definition' = TheDefinition
               \/ definition' = None   \* the fetch raised: swallowed
       ELSE UNCHANGED <<defCalls, definition>>
    /\ searchPc' = IF NoContentFilter(args) THEN "enrich" ELSE "filter"
    /\ UNCHANGED <<args, executions, idx, filtered, searchResult, listCalls,
                   detailCalls, fetchLog, parseVars, pollVars, restVars>>

\* One iteration of the unfiltered loop.
SearchEnrichStep ==
    /\ searchPc = "enrich"
    /\ idx <= Len(executions)
    /\ \E d \in DetailOutcomes :
          /\ fetchLog' = Append(fetchLog, d)
          /\ executions' = [executions EXCEPT ![idx] =
                               IF d.ok THEN Enriched(@, d, definition)
                               ELSE MarkedFailed(@)]
    /\ detailCalls' = Append(detailCalls, executions[idx].arn)
    /\ idx' = idx + 1
    /\ UNCHANGED <<searchPc, args, definition, filtered, searchResult, listCalls,
                   defCalls, parseVars, pollVars, restVars>>

SearchReturnUnfiltered ==
    /\ searchPc = "enrich"
    /\ idx > Len(executions)
    /\ searchResult' = executions
    /\ searchPc' = "done"
    /\ UNCHANGED <<args, executions, idx, definition, filtered, listCalls, defCalls,
                   detailCalls, fetchLog, parseVars, pollVars, restVars>>

KeptDespiteFailure(d, a) ==
    MatchesFilters(ParseStateHistory(d.events), a.state_name, a.input_pattern,
                   a.output_pattern) = "true"

\* Whether the try block of the filtered loop appends the execution: the
\* details arrived and _matches_filters returned True (an exception of either
\* is caught and the execution skipped).
Kept(d, a) ==
    /\ d.ok
    /\ MatchesFilters(ParseStateHistory(d.events), a.state_name, a.input_pattern,
                      a.output_pattern) = "true"

\* One iteration of the filtered loop.
SearchFilterStep ==
    /\ searchPc = "filter"
    /\ idx <= Len(executions)
    /\ \E d \in DetailOutcomes :
          /\ fetchLog' = Append(fetchLog, d)
          /\ IF Kept(d, args)
             THEN LET e == Merged(executions[idx], d, definition)
                  IN /\ executions' = [executions EXCEPT ![idx] = e]
                     /\ filtered' = Append(filtered, e)
             ELSE UNCHANGED <<executions, filtered>>
    /\ detailCalls' = Append(detailCalls, executions[idx].arn)
    /\ idx' = idx + 1
    /\ UNCHANGED <<searchPc, args, definition, searchResult, listCalls, defCalls,
                   parseVars, pollVars, restVars>>

SearchReturnFiltered ==
    /\ searchPc = "filter"
    /\ idx > Len(executions)
    /\ searchResult' = filtered
    /\ searchPc' = "done"
    /\ UNCHANGED <<args, executions, idx, definition, filtered, listCalls, defCalls,
                   detailCalls, fetchLog, parseVars, pollVars, restVars>>

Init ==
    /\ ParseIdle
    /\ SearchIdle
    /\ PollIdle
    /\ RestIdle

Next ==
    \/ SearchList
    \/ SearchDefinition
    \/ SearchEnrichStep
    \/ SearchReturnUnfiltered
    \/ SearchFilterStep
    \/ SearchReturnFiltered

Spec == Init /\ [][Next]_vars

-----------------------------------------------------------------------------
(* Properties of search_executions *)

\* Whether the execution listed k-th is in the returned list.
InResult(k) == \E i \in 1..Len(searchResult) : searchResult[i].arn = k

\* The state history reconstructed for the execution listed k-th.
HistoryOf(k) == ParseStateHistory(fetchLog[k].events)

\* A given pattern matches a text: it is a regular expression and it is found
\* in the text, case-insensitively.
PatternMatches(pattern, text) == RegexValid(pattern) /\ RegexSearch(pattern, text)

InvalidPatternGiven(a) ==
    \/ Truthy(a.state_name) /\ ~RegexValid(a.state_name)
    \/ Truthy(a.input_pattern) /\ ~RegexValid(a.input_pattern)
    \/ Truthy(a.output_pattern) /\ ~RegexValid(a.output_pattern)

\* The candidate states: those whose name matches state_name, or all states
\* when state_name is not given.
Candidates(states, state_name) ==
    IF Truthy(state_name)
    THEN {n \in StateKeys(states) : PatternMatches(state_name, n)}
    ELSE StateKeys(states)

NameFilterPasses(states, a) ==
    \E n \in StateKeys(states) : PatternMatches(a.state_name, n)

InputFilterPasses(states, a) ==
    \E n \in Candidates(states, a.state_name) :
        \E k \in 1..Len(InputsOf(states, n)) :
            PatternMatches(a.input_pattern, InputsOf(states, n)[k])

OutputFilterPasses(states, a) ==
    \E n \in Candidates(states, a.state_name) :
        \E k \in 1..Len(OutputsOf(states, n)) :
            PatternMatches(a.output_pattern, OutputsOf(states, n)[k])

EveryGivenFilterPasses(states, a) ==
    /\ Truthy(a.state_name) => NameFilterPasses(states, a)
    /\ Truthy(a.input_pattern) => InputFilterPasses(states, a)
    /\ Truthy(a.output_pattern) => OutputFilterPasses(states, a)

FilteredDone == searchPc = "done" /\ ~NoContentFilter(args)
UnfilteredDone == searchPc = "done" /\ NoContentFilter(args)

\* C2: the content filters combine with AND: with one or more of state_name,
\* input_pattern, output_pattern given, an execution (whose details were
\* retrieved) is in the result if and only if every given filter passes on its
\* reconstructed state history.
C2_FiltersCombineWithAnd ==
    FilteredDone =>
        \A k \in 1..Len(executions) :
            InResult(k) <=> (fetchLog[k].ok /\ EveryGivenFilterPasses(HistoryOf(k), args))

\* C2 witness: three executions, state_name and input_pattern given, only one
\* execution has both a matching state and a matching input, and exactly that
\* one is returned.
C2_Witness ==
    /\ FilteredDone
    /\ Truthy(args.state_name) /\ Truthy(args.input_pattern)
    /\ ~Truthy(args.output_pattern)
    /\ Len(executions) = 3
    /\ \A k \in 1..3 : fetchLog[k].ok
    /\ NameFilterPasses(HistoryOf(1), args) /\ ~InputFilterPasses(HistoryOf(1), args)
    /\ NameFilterPasses(HistoryOf(2), args) /\ InputFilterPasses(HistoryOf(2), args)
    /\ ~NameFilterPasses(HistoryOf(3), args)
    /\ Len(searchResult) = 1
    /\ searchResult[1].arn = 2

\* C3: a syntactically invalid pattern given for state_name, input_pattern or
\* output_pattern surfaces as a reported error: a call that listed executions
\* and retrieved their details never returns a result list (empty or
\* shortened) as if nothing were wrong.
C3_InvalidPatternReported ==
    ~( /\ searchPc = "done"
       /\ InvalidPatternGiven(args)
       /\ Len(executions) >= 1
       /\ \A k \in 1..Len(executions) : fetchLog[k].ok )

\* Whether the entry carries the key, with the value.
HasDefinition(e) ==
    "stateMachineDefinition" \in e.has /\ e.stateMachineDefinition = TheDefinition
LacksDefinition(e) ==
    "stateMachineDefinition" \notin e.has /\ e.stateMachineDefinition = None

C7_FailedFetchSkipped ==
    /\ (searchPc = "filter" /\ idx <= Len(executions)) => ENABLED SearchFilterStep
    /\ (searchPc = "filter" /\ idx > Len(executions)) => ENABLED SearchReturnFiltered
    /\ searchPc = "filter" =>
          \A k \in 1..Len(fetchLog) :
              ~fetchLog[k].ok => \A i \in 1..Len(filtered) : filtered[i].arn # k
    /\ FilteredDone =>
          /\ detailCalls = [k \in 1..Len(executions) |-> k]
          /\ \A k \in 1..Len(executions) :
                /\ ~fetchLog[k].ok => ~InResult(k)
                /\ (fetchLog[k].ok /\ EveryGivenFilterPasses(HistoryOf(k), args))
                      => InResult(k)

\* C7 witness: the first of three executions failed to fetch and the two
\* after it were fetched and returned.
C7_Witness ==
    /\ FilteredDone
    /\ Len(executions) = 3
    /\ ~fetchLog[1].ok
    /\ ~InResult(1) /\ InResult(2) /\ InResult(3)

\* C8: in the unfiltered path an execution whose detail fetch fails stays in
\* the result, marked in place with an empty state history and an error text;
\* the executions before and after it are enriched normally, and the result
\* has exactly one entry per listed execution.
C8_FailedFetchMarkedInPlace ==
    UnfilteredDone =>
        /\ Len(searchResult) = Len(executions)
        /\ Len(fetchLog) = Len(executions)
        /\ \A k \in 1..Len(searchResult) :
              /\ searchResult[k].arn = k
              /\ "states" \in searchResult[k].has
              /\ IF fetchLog[k].ok
                 THEN /\ searchResult[k].states = HistoryOf(k)
                      /\ searchResult[k].error = fetchLog[k].error
                      /\ ("error" \in searchResult[k].has) <=> (fetchLog[k].error # None)
                 ELSE /\ searchResult[k].states = <<>>
                      /\ "error" \in searchResult[k].has
                      /\ searchResult[k].error = ErrHistory

\* C8 witness: of three listed executions the second failed to fetch; it is
\* returned in second place, marked, between two enriched ones.
C8_Witness ==
    /\ UnfilteredDone
    /\ Len(searchResult) = 3
    /\ fetchLog[1].ok /\ ~fetchLog[2].ok /\ fetchLog[3].ok
    /\ searchResult[2].error = ErrHistory
    /\ searchResult[1].states # <<>> /\ searchResult[3].states # <<>>

\* C9: with state_name given, the input_pattern and output_pattern checks
\* look only at payloads of states whose name matches state_name: a matching
\* payload in a state of another name never makes the execution pass, and a
\* name-matching state without inputs (outputs) does not reject the execution
\* when another name-matching state has a matching input (output); without
\* state_name every state of the execution is a candidate.
C9_ChecksScopedToCandidates ==
    FilteredDone =>
        \A k \in 1..Len(executions) :
            (fetchLog[k].ok /\ ~InvalidPatternGiven(args)) =>
                LET h == HistoryOf(k)
                    named == {n \in StateKeys(h) : RegexSearch(args.state_name, n)}
                    scope == IF Truthy(args.state_name) THEN named ELSE StateKeys(h)
                    InputIn(S) == \E n \in S : \E j \in 1..Len(InputsOf(h, n)) :
                                     RegexSearch(args.input_pattern, InputsOf(h, n)[j])
                    OutputIn(S) == \E n \in S : \E j \in 1..Len(OutputsOf(h, n)) :
                                      RegexSearch(args.output_pattern, OutputsOf(h, n)[j])
                IN /\ (InResult(k) /\ Truthy(args.input_pattern)) => InputIn(scope)
                   /\ (InResult(k) /\ Truthy(args.output_pattern)) => OutputIn(scope)
                   /\ ( /\ Truthy(args.state_name) => named # {}
                        /\ Truthy(args.input_pattern) => InputIn(scope)
                        /\ Truthy(args.output_pattern) => OutputIn(scope) )
                      => InResult(k)

\* C9 witness: state_name and input_pattern given; the first execution has the
\* matching input only in a state of another name and is rejected, the second
\* has a name-matching state without inputs next to a name-matching state with
\* the matching input and is returned.
C9_Witness ==
    /\ FilteredDone
    /\ Truthy(args.state_name) /\ Truthy(args.input_pattern)
    /\ ~InvalidPatternGiven(args)
    /\ Len(executions) >= 2
    /\ fetchLog[1].ok /\ fetchLog[2].ok
    /\ LET h == HistoryOf(1)
       IN /\ \E n \in StateKeys(h) : RegexSearch(args.state_name, n)
          /\ \E n \in StateKeys(h) :
                /\ ~RegexSearch(args.state_name, n)
                /\ \E j \in 1..Len(InputsOf(h, n)) :
                      RegexSearch(args.input_pattern, InputsOf(h, n)[j])
          /\ ~InResult(1)
    /\ LET h == HistoryOf(2)
       IN /\ \E n \in StateKeys(h) :
                RegexSearch(args.state_name, n) /\ InputsOf(h, n) = <<>>
          /\ InResult(2)

\* The names of the states the execution entered or left, by its events.
VisitedStates(events) ==
    {events[i].name : i \in {j \in 1..Len(events) :
        /\ Contains(events[j].type, "StateEntered") \/ Contains(events[j].type, "StateExited")
        /\ events[j].name # None}}

\* C10: with only state_name given, search_executions returns every listed
\* execution (whose details were retrieved) that contains at least one state
\* whose name matches state_name, whatever its input and output payloads are,
\* and rejects every execution with no matching state.
C10_NameOnlyReturnsEveryVisit ==
    ( /\ FilteredDone
      /\ Truthy(args.state_name) /\ RegexValid(args.state_name)
      /\ ~Truthy(args.input_pattern) /\ ~Truthy(args.output_pattern) )
    => \A k \in 1..Len(executions) :
          fetchLog[k].ok =>
             (InResult(k) <=>
                 \E n \in VisitedStates(fetchLog[k].events) : RegexSearch(args.state_name, n))

-----------------------------------------------------------------------------
(* execute_log_insights_query *)

\* max_wait
MaxWait == 30

TheQueryId == <<"q", "1">>

\* The statuses get_query_results reports.
QueryStatuses == {"Scheduled", "Running", "Complete", "Failed", "Cancelled",
                  "Timeout", "Unknown"}

IsTerminalNever(status) == FALSE

IsTerminalWithoutCancelled(status) == status \in {"Complete", "Failed"}

\* `status in {"Complete", "Failed", "Cancelled"}`
IsTerminal(status) == status \in {"Complete", "Failed", "Cancelled"}

KeepPollingOneMore(w) == w <= MaxWait

\* `while waited < max_wait`
KeepPolling(w) == w < MaxWait

\* A result line is a sequence of <<field, value>> pairs.
SampleLines ==
    { << <<"@message", "a">>, <<"@ptr", "p">> >>,
      << <<"@message", "b">>, <<"@message", "c">> >> }

\* {field["field"]: field["value"] for field in line}: the last value of a
\* field wins.
ProcessLine(line) ==
    LET fields == {line[i][1] : i \in 1..Len(line)}
        LastOf(f) == CHOOSE i \in 1..Len(line) :
                        /\ line[i][1] = f
                        /\ \A j \in 1..Len(line) : line[j][1] = f => j <= i
    IN [f \in fields |-> line[LastOf(f)][2]]

\* processed_results
ProcessResults(lines) == [i \in 1..Len(lines) |-> ProcessLine(lines[i])]

\* The call up to the loop: the times are converted and the query is started.
\* Either step can raise; the handler re-raises it as RuntimeError.
QueryStart ==
    /\ pollPc = "idle"
    /\ \/ /\ upstreamError' = "fromisoformat"
          /\ pollPc' = "raised"
          /\ UNCHANGED <<startCalls, queryId>>
       \/ /\ upstreamError' = "start_query"
          /\ startCalls' = startCalls + 1
          /\ pollPc' = "raised"
          /\ UNCHANGED queryId
       \/ /\ startCalls' = startCalls + 1
          /\ queryId' = TheQueryId
          /\ pollPc' = "polling"
          /\ UNCHANGED upstreamError
    /\ UNCHANGED <<waited, sleeps, polls, lastStatus, lastLines, pollsAfterEnd,
                   pollResult, parseVars, searchVars, restVars>>

\* One iteration of the loop: sleep one second, ask for the results, return
\* them when the status is terminal.
QueryPoll ==
    /\ pollPc = "polling"
    /\ KeepPolling(waited)
    /\ sleeps' = sleeps + 1
    /\ waited' = waited + 1
    /\ polls' = polls + 1
    /\ pollsAfterEnd' = IF lastStatus \in {"Complete", "Failed", "Cancelled"}
                        THEN pollsAfterEnd + 1 ELSE pollsAfterEnd
    /\ \/ /\ upstreamError' = "get_query_results"
          /\ pollPc' = "raised"
          /\ UNCHANGED <<lastStatus, lastLines, pollResult>>
       \/ \E status \in QueryStatuses, lines \in SeqsUpTo(SampleLines, MaxLines) :
             /\ lastStatus' = status
             /\ lastLines' = lines
             /\ IF IsTerminal(status)
                THEN /\ pollResult' = [queryId |-> queryId, status |-> status,
                                       results |-> ProcessResults(lines)]
                     /\ pollPc' = "done"
                ELSE UNCHANGED <<pollResult, pollPc>>
             /\ UNCHANGED upstreamError
    /\ UNCHANGED <<queryId, startCalls, parseVars, searchVars, restVars>>

\* The loop ran out: the Timeout result.
QueryTimeout ==
    /\ pollPc = "polling"
    /\ ~KeepPolling(waited)
    /\ pollResult' = [queryId |-> queryId, status |-> "Timeout", results |-> <<>>]
    /\ pollPc' = "done"
    /\ UNCHANGED <<queryId, waited, sleeps, polls, startCalls, lastStatus, lastLines,
                   pollsAfterEnd, upstreamError, parseVars, searchVars, restVars>>

NextPoll ==
    \/ QueryStart
    \/ QueryPoll
    \/ QueryTimeout

SpecPoll == Init /\ [][NextPoll]_vars

\* C4: if the query never reaches a terminal status (and no call to the logs
\* service fails), execute_log_insights_query makes 30 polls, one second
\* apart, and then returns status "Timeout" with the query id and an empty
\* results list; it neither polls further, blocks, nor raises.
C4_TimeoutAfterThirtyPolls ==
    /\ polls <= 30 /\ sleeps = polls /\ waited = polls
    /\ pollPc = "polling" => (ENABLED QueryPoll \/ ENABLED QueryTimeout)
    /\ (pollPc = "polling" /\ polls = 30) => ~ENABLED QueryPoll
    /\ pollPc = "raised" => upstreamError # "none"
    /\ (pollPc = "done" /\ lastStatus \notin {"Complete", "Failed", "Cancelled"}) =>
          /\ polls = 30
          /\ pollResult = [queryId |-> TheQueryId, status |-> "Timeout", results |-> <<>>]

\* C4 witness: thirty polls saw no terminal status and the Timeout result was
\* returned.
C4_Witness ==
    /\ pollPc = "done"
    /\ polls = 30
    /\ lastStatus = "Running"
    /\ pollResult.status = "Timeout"

\* C5: "Complete", "Failed" and "Cancelled" are terminal: the first poll that
\* observes one of them returns a result with exactly that status and that
\* poll's results, and no later poll is made; any other status leads to
\* another poll, until the ceiling.
C5_TerminalStatusesReturn ==
    /\ pollsAfterEnd = 0
    /\ lastStatus \in {"Complete", "Failed", "Cancelled"} =>
          /\ pollPc = "done"
          /\ pollResult.status = lastStatus
          /\ pollResult.queryId = TheQueryId
          /\ pollResult.results = ProcessResults(lastLines)
          /\ Len(pollResult.results) = Len(lastLines)
    /\ (pollPc = "polling" /\ polls < 30) => ENABLED QueryPoll
    /\ (pollPc = "done" /\ lastStatus \notin {"Complete", "Failed", "Cancelled"}) =>
          polls = 30

\* C5 witness: the third poll observed "Cancelled" and the call returned it
\* with the two result lines of that poll.
C5_Witness ==
    /\ pollPc = "done"
    /\ polls = 3
    /\ lastStatus = "Cancelled"
    /\ pollResult.status = "Cancelled"
    /\ Len(pollResult.results) = 2

-----------------------------------------------------------------------------
(* Specification of parse_state_history *)

InitParse ==
    /\ history \in SeqsUpTo(Events, MaxEvents) \cup {ExampleHistory}
    /\ parsed = <<>>
    /\ parsePc = "call"
    /\ SearchIdle
    /\ PollIdle
    /\ RestIdle

ParseCall ==
    /\ parsePc = "call"
    /\ parsed' = ParseStateHistory(history)
    /\ parsePc' = "done"
    /\ UNCHANGED <<history, searchVars, pollVars, restVars>>

NextParse == ParseCall

SpecParse == InitParse /\ [][NextParse]_vars

-----------------------------------------------------------------------------
\* The input (output) payloads of the state-entered (state-exited) events of
\* `events` that name `name`, in the order of the event list.
RECURSIVE PayloadsOf(_, _, _)
PayloadsOf(events, name, word) ==
    IF events = <<>> THEN <<>>
    ELSE LET e == Head(events)
             rest == PayloadsOf(Tail(events), name, word)
         IN IF Contains(e.type, word) /\ e.name = name /\ e.payload # None
            THEN <<e.payload>> \o rest
            ELSE rest

\* C1: parse_state_history preserves per-state arrival order: for every state
\* name S, inputs[S] is the sequence of input payloads of the state-entered
\* events naming S in event-list order and outputs[S] that of the state-exited
\* events naming S, however the events of other states are interleaved; the
\* example event list yields A.inputs=[i1,i3], A.outputs=[o1,o3], B.inputs=[i2],
\* B.outputs=[o2].
C1_PerStateArrivalOrder ==
    parsePc = "done" =>
        /\ \A S \in EventNames \ {None} :
              /\ InputsOf(parsed, S) = PayloadsOf(history, S, "StateEntered")
              /\ OutputsOf(parsed, S) = PayloadsOf(history, S, "StateExited")
        /\ history = ExampleHistory =>
              /\ InputsOf(parsed, NameVa) = << <<"i", "1">>, <<"i", "3">> >>
              /\ OutputsOf(parsed, NameVa) = << <<"o", "1">>, <<"o", "3">> >>
              /\ InputsOf(parsed, NameShip) = << <<"i", "2">> >>
              /\ OutputsOf(parsed, NameShip) = << <<"o", "2">> >>
              /\ StateKeys(parsed) = {NameVa, NameShip}

\* C1 witness: the example event list has been parsed.
C1_Witness ==
    /\ parsePc = "done"
    /\ history = ExampleHistory
    /\ Len(InputsOf(parsed, NameVa)) = 2


\* The number of events of the list whose type holds `word` and that name `name`.
CountOf(events, name, word) ==
    Cardinality({i \in 1..Len(events) :
                    Contains(events[i].type, word) /\ events[i].name = name})

\* C11: for every state S the length of inputs[S] equals the number of
\* state-entered events naming S, the length of outputs[S] the number of
\* state-exited events naming S, and a state that occurs in such an event is a
\* key of the result.
C11_LengthsEqualEventCounts ==
    parsePc = "done" =>
        \A S \in EventNames \ {None} :
            /\ Len(InputsOf(parsed, S)) = CountOf(history, S, "StateEntered")
            /\ Len(OutputsOf(parsed, S)) = CountOf(history, S, "StateExited")
            /\ (CountOf(history, S, "StateEntered") + CountOf(history, S, "StateExited") > 0)
                  => S \in StateKeys(parsed)

\* An event whose type is neither a state-entered nor a state-exited type.
IsOtherType(e) == ~Contains(e.type, "StateEntered") /\ ~Contains(e.type, "StateExited")

WithoutOther(events) ==
    LET Significant(e) == ~IsOtherType(e) IN SelectSeq(events, Significant)

InsertedAt(events, i, e) ==
    SubSeq(events, 1, i) \o <<e>> \o SubSeq(events, i + 1, Len(events))

\* C12: events of other types are ignored: the mapping returned for an event
\* list is the mapping returned for the list with all such events removed, and
\* for the list with one more such event inserted at any position.
C12_OtherEventsIgnored ==
    parsePc = "done" =>
        /\ parsed = ParseStateHistory(WithoutOther(history))
        /\ \A i \in 0..Len(history) :
              ParseStateHistory(InsertedAt(history, i, Event(TypeOther, NameVa, PayCid)))
                 = parsed

\* C12 witness: a parsed list that holds an event of another type, carrying a
\* name and a payload, next to a state-entered event that was recorded.
C12_Witness ==
    /\ parsePc = "done"
    /\ \E i \in 1..Len(history) : IsOtherType(history[i]) /\ Truthy(history[i].payload)
    /\ WithoutOther(history) # history
    /\ parsed # <<>>

\* C13 as claimed: with no content filter the call returns every listed
\* execution, in listing order, each enriched with its reconstructed state
\* history; an empty listing yields an empty result and no error.
C13_EveryListedEnriched ==
    UnfilteredDone =>
        /\ Len(searchResult) = Len(fetchLog)
        /\ \A k \in 1..Len(searchResult) :
              /\ searchResult[k].arn = k
              /\ "states" \in searchResult[k].has
              /\ searchResult[k].states = HistoryOf(k)

\* C13 as amended: with no content filter the call returns every listed
\* execution, unfiltered and in listing order, each one whose details were
\* retrieved enriched with its reconstructed state history (one whose detail
\* fetch failed is returned in its place with an empty state history); an
\* empty listing yields an empty result and no error.
C13_EveryListedReturned ==
    /\ (searchPc \in {"enrich", "done"} /\ NoContentFilter(args)) =>
          /\ Len(fetchLog) <= Len(executions)
          /\ \A k \in 1..Len(executions) : executions[k].arn = k
    /\ UnfilteredDone =>
          /\ Len(searchResult) = Len(fetchLog)
          /\ Len(searchResult) = Len(executions)
          /\ \A k \in 1..Len(searchResult) :
                /\ searchResult[k].arn = k
                /\ "states" \in searchResult[k].has
                /\ searchResult[k].states = IF fetchLog[k].ok THEN HistoryOf(k) ELSE <<>>

\* C13 witness: three listed executions, all retrieved, returned in listing
\* order with their histories.
C13_Witness ==
    /\ UnfilteredDone
    /\ Len(searchResult) = 3
    /\ \A k \in 1..3 : fetchLog[k].ok /\ searchResult[k].arn = k
    /\ searchResult[1].states # <<>>


-----------------------------------------------------------------------------
(* list_executions: one call against a paginated upstream listing *)

\* The most executions the upstream listing holds.
MaxListed == 3

\* The clock reading of datetime.now, in hours.
Now == 3

\* Start times of the upstream executions, in hours; none lies in the future.
StartDates == 0..Now

HoursBack == {1, 2}

\* cutoff_date = datetime.now(timezone.utc) - timedelta(hours=hours_back)
CutoffDate(a) == Now - a.hours_back

OlderThanCutoffNever(startDate, cutoff_date) == FALSE

\* execution["startDate"] < cutoff_date
OlderThanCutoff(startDate, cutoff_date) == startDate < cutoff_date

Least(a, b) == IF a <= b THEN a ELSE b

\* The k-th execution of the upstream listing.
UpstreamExecution(dates, k) == [arn |-> k, startDate |-> dates[k]]

\* The entry built for an execution that is kept.
ExecData(execution) == [arn |-> execution.arn, startDate |-> execution.startDate]

\* The inner loop over one page: older executions are skipped, the others
\* appended in page order.
RECURSIVE CollectPage(_, _, _)
CollectPage(acc, page, cutoff_date) ==
    IF page = <<>> THEN acc
    ELSE CollectPage(IF OlderThanCutoff(Head(page).startDate, cutoff_date)
                     THEN acc
                     ELSE Append(acc, ExecData(Head(page))),
                     Tail(page), cutoff_date)

\* The next page the paginator yields: the next pageSize upstream executions,
\* cut so that no more than MaxItems are yielded over the whole call.
NextPage ==
    LET last == Least(Len(upstream), offset + Least(pageSize, remaining))
    IN SubSeq(upstream, offset + 1, last)

ListCall ==
    /\ listPc = "idle"
    /\ \E hb \in HoursBack, mr \in 1..MaxListed, ps \in 1..MaxListed,
          dates \in SeqsUpTo(StartDates, MaxListed) :
          /\ listArgs' = [hours_back |-> hb, max_results |-> mr]
          /\ upstream' = [k \in 1..Len(dates) |-> UpstreamExecution(dates, k)]
          /\ pageSize' = ps
          /\ remaining' = mr
    /\ offset' = 0
    /\ listExecutions' = <<>>
    /\ listPc' = "paging"
    /\ UNCHANGED <<parseVars, searchVars, pollVars, storeVars, lateVars>>

\* One iteration of `for page in paginator.paginate(...)`.
ListPage ==
    /\ listPc = "paging"
    /\ offset < Len(upstream)
    /\ remaining > 0
    /\ listExecutions' = CollectPage(listExecutions, NextPage, CutoffDate(listArgs))
    /\ offset' = offset + Len(NextPage)
    /\ remaining' = remaining - Len(NextPage)
    /\ UNCHANGED <<listPc, listArgs, upstream, pageSize, parseVars, searchVars, pollVars,
                   storeVars, lateVars>>

\* The paginator is exhausted: `return executions`.
ListReturn ==
    /\ listPc = "paging"
    /\ (offset >= Len(upstream) \/ remaining = 0)
    /\ listPc' = "done"
    /\ UNCHANGED <<listArgs, upstream, pageSize, offset, remaining, listExecutions,
                   parseVars, searchVars, pollVars, storeVars, lateVars>>

NextList == ListCall \/ ListPage \/ ListReturn

SpecList == Init /\ [][NextList]_vars

\* C14: list_executions returns only executions whose start time lies within
\* hours_back hours before now, and at most max_results of them; an upstream
\* execution older than that is never returned, whatever its page position.
C14_OnlyRecentAtMostMax ==
    listPc = "done" =>
        /\ Len(listExecutions) <= listArgs.max_results
        /\ \A i \in 1..Len(listExecutions) :
              /\ listExecutions[i].startDate >= Now - listArgs.hours_back
              /\ listExecutions[i].startDate <= Now
              /\ listExecutions[i].arn \in 1..Len(upstream)
              /\ upstream[listExecutions[i].arn].startDate = listExecutions[i].startDate
        /\ \A k \in 1..Len(upstream) :
              upstream[k].startDate < Now - listArgs.hours_back =>
                 \A i \in 1..Len(listExecutions) : listExecutions[i].arn # k

\* C14 witness: an older execution on the first page is left out, a recent one
\* on a later page is returned, and the listing holds more than max_results.
C14_Witness ==
    /\ listPc = "done"
    /\ pageSize = 1
    /\ Len(upstream) >= 2
    /\ upstream[1].startDate < Now - listArgs.hours_back
    /\ Len(upstream) > listArgs.max_results
    /\ Len(listExecutions) >= 1
    /\ listExecutions[1].arn = 2


-----------------------------------------------------------------------------
(* The run memory store: runs, field paths, chunks and the two searches *)

Environments == {"prod", "dev"}
RunIds == {"r1"}

\* reference_id = f"{environment}:{run_id}"
ReferenceId(environment, run_id) == <<environment, ":", run_id>>

\* Runs as get_run_details serializes them: one still running (no end time),
\* with an input whose key holds a dot and with a child; one finished, with an
\* output and a list of leaves.
RunRunning ==
    Dict(<< <<<<"name">>, Str(<<"V", "a">>)>>,
            <<<<"end_time">>, Null>>,
            <<<<"error">>, Bool(FALSE)>>,
            <<<<"total_tokens">>, Num(7)>>,
            <<<<"inputs">>, Dict(<< <<<<"user", ".", "id">>, Str(<<"c", "o">>)>> >>)>>,
            <<<<"children">>, List(<< Dict(<< <<<<"name">>, Str(<<"o", "k">>)>> >>) >>)>> >>)

RunFinished ==
    Dict(<< <<<<"name">>, Str(<<"C", "o">>)>>,
            <<<<"error">>, Bool(TRUE)>>,
            <<<<"outputs">>, Dict(<< <<<<"response">>, Str(<<"O", "k">>)>> >>)>>,
            <<<<"tags">>, List(<< Str(<<"o", "k">>), Num(0) >>)>> >>)

SampleRuns == {RunRunning, RunFinished}

\* value[key] on a dict, value[int(segment)] on a list, None otherwise.
Step(value, segment) ==
    LET digits == <<"0", "1", "2">>
    IN IF value[1] = "dict"
       THEN LET hits == {i \in 1..Len(value[2]) : value[2][i][1] = segment}
            IN IF hits = {} THEN Null ELSE value[2][CHOOSE i \in hits : TRUE][2]
       ELSE IF value[1] = "list"
       THEN LET hits == {i \in 1..Len(value[2]) :
                            i <= Len(digits) /\ segment = <<digits[i]>>}
            IN IF hits = {} THEN Null ELSE value[2][CHOOSE i \in hits : TRUE]
       ELSE Null

\* field_path.split(".")
RECURSIVE SplitFrom(_, _, _)
SplitFrom(path, i, part) ==
    IF i > Len(path) THEN <<part>>
    ELSE IF path[i] = "." THEN <<part>> \o SplitFrom(path, i + 1, <<>>)
    ELSE SplitFrom(path, i + 1, Append(part, path[i]))

Split(path) == SplitFrom(path, 1, <<>>)

\* ".".join(parts)
RECURSIVE Join(_)
Join(parts) ==
    IF parts = <<>> THEN <<>>
    ELSE IF Len(parts) = 1 THEN parts[1]
    ELSE parts[1] \o <<".">> \o Join(Tail(parts))

\* The value a dot path addresses in a nested value, None when a segment is
\* missing or does not fit the value it is applied to.
RECURSIVE Resolve(_, _)
Resolve(value, parts) ==
    IF parts = <<>> THEN value
    ELSE Resolve(Step(value, Head(parts)), Tail(parts))

\* Every scalar leaf of a nested value with its dot path, in structural order.
RECURSIVE LeavesAt(_, _)
LeavesAt(value, prefix) ==
    LET digits == <<"0", "1", "2">>
        under(key) == IF prefix = <<>> THEN key ELSE prefix \o <<".">> \o key
    IN IF value[1] = "dict"
       THEN LET over[i \in 0..Len(value[2])] ==
                    IF i = 0 THEN <<>>
                    ELSE over[i - 1] \o LeavesAt(value[2][i][2], under(value[2][i][1]))
            IN over[Len(value[2])]
       ELSE IF value[1] = "list"
       THEN LET over[i \in 0..Len(value[2])] ==
                    IF i = 0 THEN <<>>
                    ELSE over[i - 1] \o LeavesAt(value[2][i], under(<<digits[i]>>))
            IN over[Len(value[2])]
       ELSE << [path |-> prefix, leaf |-> value] >>

\* One (path, text) chunk per string leaf; the other leaves are skipped.
Chunks(full_data) ==
    LET leaves == LeavesAt(full_data, <<>>)
        IsText(l) == l.leaf[1] = "str"
        texts == SelectSeq(leaves, IsText)
    IN [i \in 1..Len(texts) |-> [path |-> texts[i].path, text |-> texts[i].leaf[2]]]

ConstructedWithoutChunks(reference_id, full_data, summary, embedded) ==
    [reference_id |-> reference_id, full_data |-> full_data, summary |-> summary,
     chunks |-> <<>>, embedded |-> embedded]

\* The StoredRun a store call builds before it publishes it.
Constructed(reference_id, full_data, summary, embedded) ==
    [reference_id |-> reference_id, full_data |-> full_data, summary |-> summary,
     chunks |-> Chunks(full_data), embedded |-> embedded]

\* The position of a reference id in the mapping, 0 when it is no key.
PositionOf(mem, reference_id) ==
    LET hits == {i \in 1..Len(mem) : mem[i].reference_id = reference_id}
    IN IF hits = {} THEN 0 ELSE CHOOSE i \in hits : TRUE

\* get(reference_id): the StoredRun or not-found.
Get(mem, reference_id) ==
    IF PositionOf(mem, reference_id) = 0 THEN NoRun
    ELSE mem[PositionOf(mem, reference_id)]

\* get_field(reference_id, field_path)
GetField(mem, reference_id, field_path) ==
    IF PositionOf(mem, reference_id) = 0 THEN Null
    ELSE Resolve(Get(mem, reference_id).full_data, Split(field_path))

\* list_stored_runs(): reference id and summary of every entry.
ListStoredRuns(mem) ==
    [i \in 1..Len(mem) |-> [reference_id |-> mem[i].reference_id,
                            summary |-> mem[i].summary]]


ReplacedKeepingFirst(mem, i, run) == mem

\* The mapping update of a store under a key that is present.
Replaced(mem, i, run) == [mem EXCEPT ![i] = run]

UpsertEvicting(mem, run) == <<run>>

\* The single mapping update that publishes a StoredRun.
Upsert(mem, run) ==
    IF PositionOf(mem, run.reference_id) = 0 THEN Append(mem, run)
    ELSE Replaced(mem, PositionOf(mem, run.reference_id), run)

\* Case-insensitive substring test of the keyword index.
TextContains(text, query) ==
    \E o \in 0..(Len(text) - Len(query)) :
        \A j \in 1..Len(query) : Lower(text[o + j]) = Lower(query[j])

FirstOf(seq, n) == SubSeq(seq, 1, IF Len(seq) <= n THEN Len(seq) ELSE n)

\* search_keyword: the matching chunks in chunk order, at most max_results.
SearchKeyword(mem, reference_id, query, max_results) ==
    LET chunks == Get(mem, reference_id).chunks
        Hit(c) == TextContains(c.text, query)
        hits == FirstOf(SelectSeq(chunks, Hit), max_results)
    IN [i \in 1..Len(hits) |-> [path |-> hits[i].path, text |-> hits[i].text, has |-> {}]]

\* search_similar: empty without an embedding index; with one, the
\* max_results best chunks in an order the embedding decides, each with a
\* similarity score.
SearchSimilarOutcomes(mem, reference_id, max_results) ==
    LET run == Get(mem, reference_id)
        n == Len(run.chunks)
        k == IF n <= max_results THEN n ELSE max_results
    IN IF ~run.embedded THEN {<<>>}
       ELSE {[i \in 1..k |-> [path |-> run.chunks[rank[i]].path,
                              text |-> run.chunks[rank[i]].text,
                              has |-> {"similarity"}]] :
                rank \in {r \in [1..k -> 1..n] : \A i, j \in 1..k : r[i] = r[j] => i = j}}

\* details.get(key)
DetailsGet(details, key) == Step(details, <<key>>)

\* _extract_run_summary, for the fields the model keeps.
ExtractRunSummary(details) ==
    LET children == DetailsGet(details, "children")
    IN [name |-> DetailsGet(details, "name"),
        error |-> DetailsGet(details, "error"),
        total_tokens |-> DetailsGet(details, "total_tokens"),
        child_count |-> IF children[1] = "list" THEN Len(children[2]) ELSE 0]


-----------------------------------------------------------------------------
(* The handlers over the store *)

Queries == {<<"o", "k">>, <<"z">>}
SearchTypes == {"similar", "keyword", "auto"}
FieldPaths ==
    { <<"name">>, <<"end_time">>, <<"error">>, <<"total_tokens">>, <<"nope">>,
      <<"children", ".", "0", ".", "name">>, <<"children", ".", "1">>,
      <<"outputs", ".", "missing">>, <<"inputs", ".", "user", ".", "id">>, <<"tags", ".", "1">>, <<"name", ".", "x">> }

NoRunReplyWithoutRuns(mem, reference_id) ==
    [NoReply EXCEPT !.kind = "no_run", !.reference_id = reference_id]

\* The result of both readers when `not stored_run`.
NoRunReply(mem, reference_id) ==
    [NoReply EXCEPT !.kind = "no_run", !.reference_id = reference_id,
                    !.available_runs = [i \in 1..Len(ListStoredRuns(mem)) |->
                                           ListStoredRuns(mem)[i].reference_id]]

AutoKeepsSimilarAlways(results) == TRUE

\* if results and any("similarity" in r for r in results)
AutoKeepsSimilar(results) ==
    results # <<>> /\ \E i \in 1..Len(results) : "similarity" \in results[i].has

SearchReplyKeywordFromSimilar(mem, c, similar) ==
    LET keyword == SearchKeyword(mem, c.reference_id, c.query, c.max_results)
        found == IF c.search_type = "similar" THEN <<"semantic_similarity", similar>>
                 ELSE IF c.search_type = "keyword" THEN <<"keyword", similar>>
                 ELSE IF AutoKeepsSimilar(similar) THEN <<"semantic_similarity", similar>>
                 ELSE <<"keyword", keyword>>
    IN [NoReply EXCEPT !.kind = "search", !.reference_id = c.reference_id,
                       !.search_method = found[1], !.results = found[2]]

\* The search result of search_run_content for a stored run.
SearchReply(mem, c, similar) ==
    LET keyword == SearchKeyword(mem, c.reference_id, c.query, c.max_results)
        found == IF c.search_type = "similar" THEN <<"semantic_similarity", similar>>
                 ELSE IF c.search_type = "keyword" THEN <<"keyword", keyword>>
                 ELSE IF AutoKeepsSimilar(similar) THEN <<"semantic_similarity", similar>>
                 ELSE <<"keyword", keyword>>
    IN [NoReply EXCEPT !.kind = "search", !.reference_id = c.reference_id,
                       !.search_method = found[1], !.results = found[2]]

\* The store operations search_run_content invokes for a stored run.
SearchCalls(c, similar) ==
    IF c.search_type = "similar" THEN <<"get", "search_similar">>
    ELSE IF c.search_type = "keyword" THEN <<"get", "search_keyword">>
    ELSE IF AutoKeepsSimilar(similar) THEN <<"get", "search_similar">>
    ELSE <<"get", "search_similar", "search_keyword">>

SearchRunContent ==
    \E reference_id \in {ReferenceId(e, r) : e \in Environments, r \in RunIds},
       query \in Queries, search_type \in SearchTypes, max_results \in {1, 5} :
       LET c == [NoCall EXCEPT !.op = "search_run_content", !.reference_id = reference_id,
                               !.query = query, !.search_type = search_type,
                               !.max_results = max_results]
       IN /\ call = NoCall
          /\ call' = c
          /\ IF Get(memory, reference_id) = NoRun
             THEN /\ reply' = NoRunReply(memory, reference_id)
                  /\ memCalls' = <<"get", "list_stored_runs">>
             ELSE \E similar \in SearchSimilarOutcomes(memory, reference_id, max_results) :
                     /\ reply' = SearchReply(memory, c, similar)
                     /\ memCalls' = SearchCalls(c, similar)
          /\ UNCHANGED <<memory, pending, published, lastStore, parseVars, searchVars,
                         pollVars, listVars, lateVars>>

\* parent_path = ".".join(parts[:-1]) if len(parts) > 1 else ""
ParentPath(field_path) ==
    LET parts == Split(field_path)
    IN IF Len(parts) > 1 THEN Join(SubSeq(parts, 1, Len(parts) - 1)) ELSE <<>>

\* The keys of a dict parent, the indices of a list parent, at most 20.
AvailableKeys(parent) ==
    LET digits == <<"0", "1", "2">>
    IN IF parent[1] = "dict"
       THEN FirstOf([i \in 1..Len(parent[2]) |-> parent[2][i][1]], 20)
       ELSE IF parent[1] = "list"
       THEN FirstOf([i \in 1..Len(parent[2]) |-> <<digits[i]>>], 20)
       ELSE <<>>

\* The result of get_run_field for a stored run.
FieldReply(mem, c) ==
    LET value == GetField(mem, c.reference_id, c.field_path)
        parent_path == ParentPath(c.field_path)
        parent == IF parent_path # <<>> THEN GetField(mem, c.reference_id, parent_path)
                  ELSE Get(mem, c.reference_id).full_data
    IN IF value = Null
       THEN [NoReply EXCEPT !.kind = "no_field", !.reference_id = c.reference_id,
                            !.parent_path = IF parent_path # <<>> THEN parent_path
                                            ELSE <<"(root)">>,
                            !.available_keys = AvailableKeys(parent)]
       ELSE [NoReply EXCEPT !.kind = "field", !.reference_id = c.reference_id,
                            !.value = value]

GetRunField ==
    \E reference_id \in {ReferenceId(e, r) : e \in Environments, r \in RunIds},
       field_path \in FieldPaths :
       LET c == [NoCall EXCEPT !.op = "get_run_field", !.reference_id = reference_id,
                               !.field_path = field_path]
       IN /\ call = NoCall
          /\ call' = c
          /\ IF Get(memory, reference_id) = NoRun
             THEN /\ reply' = NoRunReply(memory, reference_id)
                  /\ memCalls' = <<"get", "list_stored_runs">>
             ELSE /\ reply' = FieldReply(memory, c)
                  /\ memCalls' = IF GetField(memory, reference_id, field_path) = Null
                                    /\ ParentPath(field_path) # <<>>
                                 THEN <<"get", "get_field", "get_field">>
                                 ELSE <<"get", "get_field">>
          /\ UNCHANGED <<memory, pending, published, lastStore, parseVars, searchVars,
                         pollVars, listVars, lateVars>>

\* get_langsmith_run_details up to the point where store has built the
\* StoredRun off to the side: the run is fetched, the reference id and the
\* summary are made, the chunks computed and the embedding attempted.
StoreBegin(w) ==
    /\ call = NoCall
    /\ ~pending[w].busy
    /\ \E environment \in Environments, run_id \in RunIds, details \in SampleRuns,
          embedded \in BOOLEAN :
          /\ pending' = [pending EXCEPT ![w] =
                [busy |-> TRUE,
                 run |-> Constructed(ReferenceId(environment, run_id), details,
                                     ExtractRunSummary(details), embedded)]]
          /\ call' = [NoCall EXCEPT !.op = "get_langsmith_run_details",
                                    !.reference_id = ReferenceId(environment, run_id)]
    /\ reply' = NoReply
    /\ memCalls' = <<>>
    /\ UNCHANGED <<memory, published, lastStore, parseVars, searchVars, pollVars,
                   listVars, lateVars>>

\* The StoredRun is published with one mapping update and the handler returns.
StorePublish(w) ==
    /\ call = NoCall
    /\ pending[w].busy
    /\ memory' = Upsert(memory, pending[w].run)
    /\ published' = published \cup {pending[w].run.reference_id}
    /\ lastStore' = [before |-> memory, new |-> pending[w].run]
    /\ pending' = [pending EXCEPT ![w] = [busy |-> FALSE, run |-> NoRun]]
    /\ call' = [NoCall EXCEPT !.op = "get_langsmith_run_details",
                              !.reference_id = pending[w].run.reference_id]
    /\ reply' = [NoReply EXCEPT !.kind = "stored",
                                !.reference_id = pending[w].run.reference_id,
                                !.summary = pending[w].run.summary]
    /\ memCalls' = <<"store">>
    /\ UNCHANGED <<parseVars, searchVars, pollVars, listVars, lateVars>>

\* The dispatch shell hands the handler's result to the caller.
Deliver ==
    /\ call # NoCall
    /\ call' = NoCall
    /\ reply' = NoReply
    /\ memCalls' = <<>>
    /\ lastStore' = NoStore
    /\ UNCHANGED <<memory, pending, published, parseVars, searchVars, pollVars, listVars, lateVars>>

NextStore ==
    \/ \E w \in Writers : StoreBegin(w)
    \/ \E w \in Writers : StorePublish(w)
    \/ SearchRunContent
    \/ GetRunField
    \/ Deliver

SpecStore == Init /\ [][NextStore]_vars



-----------------------------------------------------------------------------
(* Claims about the store and its handlers *)

ReaderCalled == call.op \in {"search_run_content", "get_run_field"}

KeysOf(mem) == [i \in 1..Len(mem) |-> mem[i].reference_id]

\* Whether a sequence of path segments leads to a node of a nested value: it
\* begins the path of one of its leaves.
Addresses(value, parts) ==
    \E i \in 1..Len(LeavesAt(value, <<>>)) :
        LET p == Split(LeavesAt(value, <<>>)[i].path)
        IN Len(p) >= Len(parts) /\ SubSeq(p, 1, Len(parts)) = parts

C16_MethodNamesTheSearch ==
    (call.op = "search_run_content" /\ PositionOf(memory, call.reference_id) # 0) =>
        LET run == Get(memory, call.reference_id)
            keyword == SearchKeyword(memory, call.reference_id, call.query, call.max_results)
            similar == SearchSimilarOutcomes(memory, call.reference_id, call.max_results)
            last == memCalls[Len(memCalls)]
        IN /\ reply.kind = "search"
           /\ ~run.embedded => similar = {<<>>}
           /\ (~run.embedded /\ call.search_type \notin {"similar", "keyword"})
                 => reply.search_method = "keyword" /\ reply.results = keyword
           /\ reply.search_method \in {"keyword", "semantic_similarity"}
           /\ reply.search_method = "keyword" <=> last = "search_keyword"
           /\ reply.search_method = "semantic_similarity" <=> last = "search_similar"
           /\ last = "search_keyword" => reply.results = keyword
           /\ last = "search_similar" => reply.results \in similar
           /\ \A i \in 1..Len(reply.results) :
                 "similarity" \in reply.results[i].has
                    <=> reply.search_method = "semantic_similarity"

\* C16 witness: an auto search on a run stored without an embedding index
\* comes back with keyword results.
C16_Witness ==
    /\ call.op = "search_run_content"
    /\ call.search_type = "auto"
    /\ PositionOf(memory, call.reference_id) # 0
    /\ ~Get(memory, call.reference_id).embedded
    /\ reply.search_method = "keyword"
    /\ reply.results # <<>>

\* C17: a field path that addresses a leaf that is a number, a boolean or
\* null makes get_run_field return the leaf's value, not a not-found result.
C17_NonStringLeavesReturned ==
    (call.op = "get_run_field" /\ PositionOf(memory, call.reference_id) # 0) =>
        LET leaves == LeavesAt(Get(memory, call.reference_id).full_data, <<>>)
        IN \A i \in 1..Len(leaves) :
              (leaves[i].path = call.field_path
                 /\ leaves[i].leaf[1] \in {"num", "bool", "null"})
                 => reply.kind = "field" /\ reply.value = leaves[i].leaf

\* C18: a store under a reference id that is already stored replaces the
\* entry's full data, summary, chunks and embedding index by those of the new
\* run, merging nothing, and the mapping holds one entry per reference id.
C18_LastWriteWins ==
    /\ \A i, j \in 1..Len(memory) :
          memory[i].reference_id = memory[j].reference_id => i = j
    /\ reply.kind = "stored" =>
          /\ Get(memory, call.reference_id) = lastStore.new
          /\ lastStore.new.reference_id = call.reference_id
          /\ Len(memory) = IF PositionOf(lastStore.before, call.reference_id) # 0
                           THEN Len(lastStore.before) ELSE Len(lastStore.before) + 1

\* C18 witness: a run stored with an embedding index has been overwritten by
\* another run stored without one.
C18_Witness ==
    /\ reply.kind = "stored"
    /\ PositionOf(lastStore.before, call.reference_id) # 0
    /\ Get(lastStore.before, call.reference_id).full_data = RunFinished
    /\ Get(lastStore.before, call.reference_id).embedded
    /\ Get(memory, call.reference_id).full_data = RunRunning
    /\ ~Get(memory, call.reference_id).embedded

\* C19: a stored run never expires: every reference id that a store has
\* published stays a key of the mapping, and a reader that names it gets no
\* not-found result.
C19_StoredRunsStay ==
    /\ \A r \in published : PositionOf(memory, r) # 0
    /\ \A i \in 1..Len(lastStore.before) :
          PositionOf(memory, lastStore.before[i].reference_id) # 0
    /\ (ReaderCalled /\ call.reference_id \in published) => reply.kind # "no_run"

\* C19 witness: two runs are stored and a reader gets a field of the first.
C19_Witness ==
    /\ Cardinality(published) = 2
    /\ Len(memory) = 2
    /\ call.op = "get_run_field"
    /\ call.reference_id = memory[1].reference_id
    /\ reply.kind = "field"

\* C20: whatever is in the mapping is a complete StoredRun that one store
\* call built, so a reader of a reference id sees no entry or such a run, also
\* while a store under that id is in flight; a store under one reference id
\* leaves the entries of the other ids as they were.
C20_ReadersSeeCompleteRuns ==
    /\ \A i \in 1..Len(memory) :
          /\ memory[i].full_data \in SampleRuns
          /\ memory[i].chunks = Chunks(memory[i].full_data)
          /\ memory[i].summary = ExtractRunSummary(memory[i].full_data)
          /\ memory[i].reference_id \in published
    /\ reply.kind = "stored" =>
          \A i \in 1..Len(lastStore.before) :
             lastStore.before[i].reference_id # lastStore.new.reference_id
                => memory[i] = lastStore.before[i]
    /\ (call.op = "get_run_field" /\ reply.kind = "field") =>
          \E details \in SampleRuns :
             reply.value = Resolve(details, Split(call.field_path))
    /\ (call.op = "search_run_content" /\ reply.kind = "search") =>
          \A i \in 1..Len(reply.results) :
             \E details \in SampleRuns :
                \E k \in 1..Len(Chunks(details)) :
                   /\ Chunks(details)[k].path = reply.results[i].path
                   /\ Chunks(details)[k].text = reply.results[i].text

\* C20 witness: while a store of another run under the same reference id is
\* in flight, a reader gets a field of the run stored before.
C20_Witness ==
    /\ call.op = "get_run_field"
    /\ reply.kind = "field"
    /\ \E w \in Writers :
          /\ pending[w].busy
          /\ pending[w].run.reference_id = call.reference_id
          /\ pending[w].run.full_data # Get(memory, call.reference_id).full_data


\* C21: every string leaf of a stored value is in exactly one chunk, and for
\* every chunk get_field on the chunk's path gives the chunk's text, also
\* through get_run_field.
C21_ChunksRoundTrip ==
    /\ \A i \in 1..Len(memory) :
          LET leaves == LeavesAt(memory[i].full_data, <<>>)
              chunks == memory[i].chunks
          IN /\ \A l \in 1..Len(leaves) :
                   leaves[l].leaf[1] = "str" =>
                      Cardinality({k \in 1..Len(chunks) :
                                      chunks[k].path = leaves[l].path
                                         /\ chunks[k].text = leaves[l].leaf[2]}) = 1
             /\ \A k \in 1..Len(chunks) :
                   GetField(memory, memory[i].reference_id, chunks[k].path)
                      = Str(chunks[k].text)
    /\ (call.op = "get_run_field" /\ PositionOf(memory, call.reference_id) # 0) =>
          \A k \in 1..Len(Get(memory, call.reference_id).chunks) :
             Get(memory, call.reference_id).chunks[k].path = call.field_path =>
                /\ reply.kind = "field"
                /\ reply.value = Str(Get(memory, call.reference_id).chunks[k].text)


\* The chunks of the run a search names whose text holds the query, whatever
\* the case of the letters, in chunk order.
MatchingChunks ==
    LET Holds(c) == \E o \in 0..(Len(c.text) - Len(call.query)) :
                       \A j \in 1..Len(call.query) :
                          Lower(c.text[o + j]) = Lower(call.query[j])
    IN SelectSeq(Get(memory, call.reference_id).chunks, Holds)

KeywordSearched ==
    /\ call.op = "search_run_content"
    /\ PositionOf(memory, call.reference_id) # 0
    /\ memCalls[Len(memCalls)] = "search_keyword"

\* C22 as claimed: the path of every chunk whose text holds the query is among
\* the results of the keyword search, the results come in chunk order, and a
\* query that no chunk holds gives no result and no error.
C22_EveryMatchReturned ==
    KeywordSearched =>
        /\ reply.kind = "search"
        /\ \A k \in 1..Len(MatchingChunks) :
              \E i \in 1..Len(reply.results) :
                 reply.results[i].path = MatchingChunks[k].path
        /\ MatchingChunks = <<>> => reply.results = <<>>

\* C22 as amended: the results of the keyword search are the first
\* max_results chunks whose text holds the query, in chunk order (all of them
\* when there are no more than max_results), and a query that no chunk holds
\* gives no result and no error.
C22_FirstMatchesInChunkOrder ==
    KeywordSearched =>
        LET n == IF Len(MatchingChunks) <= call.max_results
                 THEN Len(MatchingChunks) ELSE call.max_results
        IN /\ reply.kind = "search"
           /\ reply.search_method = "keyword"
           /\ Len(reply.results) = n
           /\ \A i \in 1..n :
                 /\ reply.results[i].path = MatchingChunks[i].path
                 /\ reply.results[i].text = MatchingChunks[i].text
           /\ MatchingChunks = <<>> => reply.results = <<>>

\* C22 witness: a keyword search finds two chunks whose letters differ in
\* case from the query's and returns both in chunk order.
C22_Witness ==
    /\ KeywordSearched
    /\ call.search_type = "keyword"
    /\ Len(reply.results) = 2
    /\ reply.results[1].text # reply.results[2].text


-----------------------------------------------------------------------------
(* Further properties of search_executions and execute_log_insights_query *)

\* C23: a failure of the listing inside search_executions, or of start_query
\* or get_query_results inside execute_log_insights_query, ends the call with
\* a result that is returned, never with an exception that is raised.
C23_FailuresEndInResults ==
    /\ searchPc # "raised"
    /\ pollPc # "raised"

\* The definition was asked for and its fetch raised.
DefinitionFetchFailed ==
    /\ searchPc \in {"enrich", "filter", "done"}
    /\ args.include_definition
    /\ defCalls = 1
    /\ definition = None

\* C27: a failed definition fetch is swallowed: the search goes on over every
\* listed execution and returns the result it returns without the definition,
\* with no stateMachineDefinition on any execution and no error of its own.
C27_DefinitionFailureSwallowed ==
    DefinitionFetchFailed =>
        /\ (searchPc = "enrich" /\ idx <= Len(executions)) => ENABLED SearchEnrichStep
        /\ (searchPc = "enrich" /\ idx > Len(executions)) => ENABLED SearchReturnUnfiltered
        /\ (searchPc = "filter" /\ idx <= Len(executions)) => ENABLED SearchFilterStep
        /\ (searchPc = "filter" /\ idx > Len(executions)) => ENABLED SearchReturnFiltered
        /\ searchPc = "done" =>
              /\ Len(fetchLog) = Len(executions)
              /\ NoContentFilter(args) => Len(searchResult) = Len(executions)
              /\ ~NoContentFilter(args) =>
                    \A k \in 1..Len(executions) :
                       InResult(k) <=>
                          /\ fetchLog[k].ok
                          /\ MatchesFilters(HistoryOf(k), args.state_name,
                                            args.input_pattern, args.output_pattern) = "true"
              /\ \A i \in 1..Len(searchResult) :
                    /\ "stateMachineDefinition" \notin searchResult[i].has
                    /\ searchResult[i].stateMachineDefinition = None
                    /\ "error" \in searchResult[i].has =>
                          \/ ~fetchLog[searchResult[i].arn].ok
                          \/ fetchLog[searchResult[i].arn].error # None

\* C27 witness: the definition fetch failed and a filtered search still
\* returned two of three executions.
C27_Witness ==
    /\ DefinitionFetchFailed
    /\ FilteredDone
    /\ Len(executions) = 3
    /\ Len(searchResult) = 2

\* C29: the details of each listed execution are fetched exactly once, in
\* listing order, on both paths; the filtered result is a subsequence of the
\* listing in listing order without duplicates, and each returned execution
\* carries the state history its filters were evaluated on.
C29_EachFetchedOnceInOrder ==
    /\ searchPc \in {"enrich", "filter", "done"} =>
          /\ Len(detailCalls) = Len(fetchLog)
          /\ Len(detailCalls) <= Len(executions)
          /\ \A k \in 1..Len(detailCalls) : detailCalls[k] = k /\ executions[k].arn = k
    /\ searchPc = "done" => Len(detailCalls) = Len(executions)
    /\ FilteredDone =>
          /\ \A i, j \in 1..Len(searchResult) :
                i < j => searchResult[i].arn < searchResult[j].arn
          /\ \A i \in 1..Len(searchResult) :
                /\ searchResult[i].arn \in 1..Len(executions)
                /\ searchResult[i].states = HistoryOf(searchResult[i].arn)
                /\ MatchesFilters(searchResult[i].states, args.state_name,
                                  args.input_pattern, args.output_pattern) = "true"

\* C29 witness: of three listed executions a filtered search returns the
\* first and the third.
C29_Witness ==
    /\ FilteredDone
    /\ Len(detailCalls) = 3
    /\ Len(searchResult) = 2
    /\ searchResult[1].arn = 1
    /\ searchResult[2].arn = 3


\* C28: every get_query_results call comes after a one-second sleep of its
\* own, so the first poll is never immediate; one call polls at most 30 times
\* and starts the query exactly once; no poll follows a terminal status or the
\* Timeout result.
C28_PollsPacedAndBounded ==
    /\ polls = sleeps
    /\ sleeps = waited
    /\ polls <= MaxWait
    /\ startCalls <= 1
    /\ pollPc \in {"polling", "done"} => startCalls = 1
    /\ pollPc = "polling" => lastStatus \notin {"Complete", "Failed", "Cancelled"}
    /\ pollsAfterEnd = 0
    /\ pollPc = "done" => ~ENABLED QueryPoll /\ ~ENABLED QueryStart
    /\ (pollPc = "done" /\ pollResult.status = "Timeout") => polls = MaxWait

\* C28 witness: a call that saw a terminal status on its 30th poll.
C28_Witness ==
    /\ pollPc = "done"
    /\ polls = MaxWait
    /\ sleeps = MaxWait
    /\ startCalls = 1
    /\ pollResult.status = "Complete"


(***************************************************************************)
(* JiraDebugger.search_tickets.  The debugger is constructed with or       *)
(* without credentials and a default project; its client is created by the *)
(* client property on first use.  requests counts the requests the latest  *)
(* call sent, hadClient says whether the client existed when it began.     *)
(***************************************************************************)
\* JiraDebugger(...): credentials and project are fixed, no client yet.
JiraConstruct ==
    /\ jira.pc = "idle"
    /\ \E configured \in BOOLEAN, project \in {None, <<"O", "P">>} :
          jira' = [NoJira EXCEPT !.pc = "ready", !.configured = configured,
                                 !.project = project]
    /\ UNCHANGED <<parseVars, searchVars, pollVars, listVars, storeVars,
                   extracted, selection, registry>>

\* any([query, issue_type, status, assignee]) taken for granted.
AnyFilterGivenUnlessNone(query, issue_type, status, assignee) ==
    \E v \in {query, issue_type, status, assignee} : v # None

\* any([query, issue_type, status, assignee])
AnyFilterGiven(query, issue_type, status, assignee) ==
    \E v \in {query, issue_type, status, assignee} : Truthy(v)

\* jql_parts, one <<field, value>> per clause in the order they are appended.
JqlParts(project, query, issue_type, status, assignee) ==
    LET Part(field, v) == IF Truthy(v) THEN << <<field, v>> >> ELSE <<>>
    IN  Part("project", project) \o Part("summary", query)
        \o Part("issuetype", issue_type) \o Part("status", status)
        \o Part("assignee", assignee)

\* One whole search_tickets call.
SearchTickets ==
    /\ jira.pc # "idle"
    \* each filter is None, the empty text or a text
    /\ \E filters \in [1..4 -> {None, <<>>, <<"B", "u", "g">>}],
          upstreamFails \in BOOLEAN, found \in 0..2 :
          LET query == filters[1]
              issue_type == filters[2]
              status == filters[3]
              assignee == filters[4]
              called == [jira EXCEPT !.pc = "done", !.query = query,
                                     !.issue_type = issue_type, !.status = status,
                                     !.assignee = assignee,
                                     !.hadClient = jira.hasClient,
                                     !.requests = 0, !.jql = <<>>]
              jql == JqlParts(jira.project, query, issue_type, status, assignee)
          IN  IF ~AnyFilterGiven(query, issue_type, status, assignee)
              THEN jira' = [called EXCEPT
                              !.result = [kind |-> "required", total |-> 0]]
              ELSE IF ~jira.hasClient /\ ~jira.configured
              THEN \* the client property raises ValueError
                   jira' = [called EXCEPT !.jql = jql,
                              !.result = [kind |-> "raised", total |-> 0]]
              ELSE jira' = [called EXCEPT !.jql = jql, !.hasClient = TRUE,
                              !.requests = 1,
                              !.result = IF upstreamFails
                                         THEN [kind |-> "api_error", total |-> 0]
                                         ELSE [kind |-> "results", total |-> found]]
    /\ UNCHANGED <<parseVars, searchVars, pollVars, listVars, storeVars,
                   extracted, selection, registry>>

SpecJira == Init /\ [][JiraConstruct \/ SearchTickets]_vars

\* C24: a search_tickets call given none of query, issue_type, status and
\* assignee (each None or empty) ends with the structured "at least one
\* search parameter is required" error, sends no request and neither
\* creates nor uses the Jira client.
C24_NoFilterNoIO ==
    (jira.pc = "done"
     /\ \A v \in {jira.query, jira.issue_type, jira.status, jira.assignee} :
           v \in {None, <<>>})
    => /\ jira.result.kind = "required"
       /\ jira.requests = 0
       /\ jira.hasClient = jira.hadClient
       /\ jira.jql = <<>>

\* A configured debugger without a client was called with an empty query
\* and no other filter, and answered with the error.
C24_Witness ==
    /\ jira.pc = "done"
    /\ jira.configured
    /\ jira.query = <<>>
    /\ \A v \in {jira.issue_type, jira.status, jira.assignee} : v = None
    /\ ~jira.hadClient
    /\ ~jira.hasClient
    /\ jira.result.kind = "required"


(***************************************************************************)
(* MCPProxy._extract_content.  A content block is an object or a mapping   *)
(* that may carry a text.  A text is a sequence of symbols; the string     *)
(* literal "a" is one symbol, and so is the object key "a": with its colon.*)
(***************************************************************************)
MaxText == 4

JsonSymbols == {"{", "}", "[", "]", "1", "\"a\"", "\"a\":"}

\* A block with a text (None included) or without one.
ContentBlocks ==
    LET texts == UNION {[1..n -> JsonSymbols] : n \in 0..MaxText} \cup {None}
    IN  [shape : {"object", "mapping"}, hasText : {TRUE}, text : texts]
        \cup [shape : {"object", "mapping"}, hasText : {FALSE}, text : {None}]

NoParse == [ok |-> FALSE, value |-> Null, next |-> 0]

\* The JSON value that starts at text[i] and the position after it.
RECURSIVE ParseValue(_, _)
ParseValue(text, i) ==
    LET At(j) == IF j <= Len(text) THEN text[j] ELSE "<end>"
        \* the decimal number written as n ones
        RECURSIVE Ones(_)
        Ones(n) == IF n = 0 THEN 0 ELSE 10 * Ones(n - 1) + 1
        digits == CHOOSE n \in 0..Len(text) :
                     /\ \A j \in i..(i + n - 1) : At(j) = "1"
                     /\ At(i + n) # "1"
    IN  CASE At(i) = "1" ->
                [ok |-> TRUE, value |-> Num(Ones(digits)), next |-> i + digits]
          [] At(i) = "\"a\"" ->
                [ok |-> TRUE, value |-> Str(<<"a">>), next |-> i + 1]
          [] At(i) = "[" ->
                IF At(i + 1) = "]"
                THEN [ok |-> TRUE, value |-> List(<<>>), next |-> i + 2]
                ELSE LET item == ParseValue(text, i + 1)
                     IN  IF item.ok /\ At(item.next) = "]"
                         THEN [ok |-> TRUE, value |-> List(<<item.value>>),
                               next |-> item.next + 1]
                         ELSE NoParse
          [] At(i) = "{" ->
                IF At(i + 1) = "}"
                THEN [ok |-> TRUE, value |-> Dict(<<>>), next |-> i + 2]
                ELSE IF At(i + 1) = "\"a\":"
                THEN LET item == ParseValue(text, i + 2)
                     IN  IF item.ok /\ At(item.next) = "}"
                         THEN [ok |-> TRUE,
                               value |-> Dict(<< <<<<"a">>, item.value>> >>),
                               next |-> item.next + 1]
                         ELSE NoParse
                ELSE NoParse
          [] OTHER -> NoParse

\* json.loads(text): TypeError for a text that is no string, JSONDecodeError
\* unless the whole text is one value.
JsonLoads(text) ==
    IF text = None THEN NoParse
    ELSE LET parsed_ == ParseValue(text, 1)
         IN  IF parsed_.ok /\ parsed_.next = Len(text) + 1 THEN parsed_ ELSE NoParse

\* hasattr(first_block, 'text') only.
HasTextAsObject(block) == block.shape = "object" /\ block.hasText

\* hasattr(first_block, 'text') or isinstance(first_block, dict) and 'text' in it
HasText(block) == block.hasText

ExtractedFrom(result_content) ==
    IF result_content = <<>> THEN [kind |-> "empty", value |-> Dict(<<>>)]
    ELSE LET first_block == result_content[1]
         IN  IF ~HasText(first_block)
             THEN [kind |-> "block", value |-> first_block]
             ELSE IF JsonLoads(first_block.text).ok
             THEN [kind |-> "parsed", value |-> JsonLoads(first_block.text).value]
             ELSE [kind |-> "text", value |-> first_block.text]

ExtractContent ==
    /\ extracted.pc = "idle"
    /\ \E result_content \in
            {<<>>} \cup {<<b>> : b \in ContentBlocks}
            \cup {<<b, [shape |-> "mapping", hasText |-> TRUE, text |-> <<"1">>]>> :
                     b \in ContentBlocks} :
          extracted' = [pc |-> "done", content |-> result_content,
                        result |-> ExtractedFrom(result_content)]
    /\ UNCHANGED <<parseVars, searchVars, pollVars, listVars, storeVars,
                   jira, selection, registry>>

SpecExtract == Init /\ [][ExtractContent]_vars


\* The text the first block of a non-empty content list carries.
FirstText == extracted.content[1].text

\* C25 as stated: {} for an empty content list; otherwise the result comes
\* from the text of the first block alone, the parsed JSON value when the
\* text is valid JSON and the text itself when it is not.
C25_ParsedOrText ==
    extracted.pc = "done"
    => IF extracted.content = <<>>
       THEN extracted.result.value = Dict(<<>>)
       ELSE \/ /\ JsonLoads(FirstText).ok
               /\ extracted.result = [kind |-> "parsed", value |-> JsonLoads(FirstText).value]
            \/ /\ ~JsonLoads(FirstText).ok
               /\ extracted.result = [kind |-> "text", value |-> FirstText]

\* C25, amended: as above when the first block carries a text, as an
\* attribute or under a 'text' key; a first block that carries none is
\* returned as it is.  Later blocks never matter, and no call raises.
C25_ParsedOrTextOrBlock ==
    extracted.pc = "done"
    => IF extracted.content = <<>>
       THEN extracted.result = [kind |-> "empty", value |-> Dict(<<>>)]
       ELSE /\ extracted.content[1].hasText
               => /\ extracted.result.kind \in {"parsed", "text"}
                  /\ extracted.result.kind = "parsed" <=> JsonLoads(FirstText).ok
                  /\ extracted.result.kind = "parsed"
                     => extracted.result.value = JsonLoads(FirstText).value
                  /\ extracted.result.kind = "text"
                     => extracted.result.value = FirstText
                  /\ FirstText = <<"{", "\"a\":", "1", "}">>
                     => extracted.result.value = Dict(<< <<<<"a">>, Num(1)>> >>)
                  /\ FirstText \in {<<"{", "1", "}">>, <<"[", "1">>, <<>>, None}
                     => extracted.result.kind = "text"
            /\ ~extracted.content[1].hasText
               => extracted.result = [kind |-> "block", value |-> extracted.content[1]]

\* A mapping block whose text is an object was parsed while a second block
\* followed it.
C25_Witness ==
    /\ extracted.pc = "done"
    /\ Len(extracted.content) = 2
    /\ extracted.content[1].shape = "mapping"
    /\ FirstText = <<"{", "\"a\":", "1", "}">>
    /\ extracted.result = [kind |-> "parsed",
                           value |-> Dict(<< <<<<"a">>, Num(1)>> >>)]


(***************************************************************************)
(* Tool selection at import of server.py.  The environment value is None   *)
(* when the variable is unset and a text otherwise.  A tool name of the    *)
(* server is one symbol; "a", "l" and "L" are letters.  configured_tools   *)
(* is the pair of all (it is None) and names (the set, when it is not).    *)
(***************************************************************************)
MaxEnv == 4

DEFAULT_TOOLS ==
    <<"describe_log_groups", ",", "analyze_log_group", ",",
      "execute_log_insights_query", ",", "get_logs_insight_query_results", ",",
      "cancel_logs_insight_query", ",",
      "list_state_machines", ",", "get_state_machine_definition", ",",
      "list_step_function_executions", ",", "get_step_function_execution_details", ",",
      "search_step_function_executions", ",",
      "list_langsmith_projects", ",", "list_langsmith_runs", ",",
      "get_langsmith_run_details", ",", "search_langsmith_runs", ",",
      "search_run_content", ",", "get_run_field", ",",
      "get_jira_ticket", ",", "search_jira_tickets">>

EnvValues ==
    LET symbols == {"a", "l", "L", ",", " ", "get_run_field", "list_tools"}
    IN  UNION {[1..n -> symbols] : n \in 0..MaxEnv} \cup {None}

\* str.lower() left out.
LowerTextUnchanged(text) == text

\* str.lower()
LowerText(text) ==
    [i \in 1..Len(text) |-> IF text[i] = "L" THEN "l" ELSE Lower(text[i])]

\* str.strip()
Strip(item) ==
    LET inked == {i \in 1..Len(item) : item[i] # " "}
    IN  IF inked = {} THEN <<>>
        ELSE SubSeq(item, CHOOSE i \in inked : \A j \in inked : i <= j,
                          CHOOSE i \in inked : \A j \in inked : i >= j)

\* The items of text.split(","), as a set.
SplitItems(text) ==
    LET cuts == {0, Len(text) + 1} \cup {i \in 1..Len(text) : text[i] = ","}
    IN  {SubSeq(text, a + 1, b - 1) :
            <<a, b>> \in {c \in cuts \X cuts :
                            /\ c[1] < c[2]
                            /\ \A k \in cuts : ~(c[1] < k /\ k < c[2])}}

\* set(tool.strip() for tool in ....split(",") if tool.strip())
ToolSet(text) == {Strip(tool) : tool \in SplitItems(text)} \ {<<>>}

\* os.getenv("DEBUG_MCP_TOOLS", DEFAULT_TOOLS) and the parsing that follows.
LoadSelection ==
    /\ selection.pc = "idle"
    /\ \E env \in EnvValues :
          LET configured_tools_str == IF env = None THEN DEFAULT_TOOLS ELSE env
              all == LowerText(configured_tools_str) = <<"a", "l", "l">>
          IN  selection' = [NoSelection EXCEPT
                              !.pc = "loaded", !.env = env, !.all = all,
                              !.names = IF all THEN {} ELSE ToolSet(configured_tools_str)]
    /\ UNCHANGED <<parseVars, searchVars, pollVars, listVars, storeVars,
                   jira, extracted, registry>>

\* should_expose_tool(tool_name)
ShouldExposeTool ==
    /\ selection.pc = "loaded"
    /\ \E tool_name \in {<<"get_run_field">>, <<"list_tools">>, <<"a">>, <<"a", "l", "l">>,
                         <<"describe_log_groups">>} :
          selection' = [selection EXCEPT
                          !.pc = "asked", !.tool_name = tool_name,
                          !.exposed = selection.all \/ tool_name \in selection.names]
    /\ UNCHANGED <<parseVars, searchVars, pollVars, listVars, storeVars,
                   jira, extracted, registry>>

SpecSelect == Init /\ [][LoadSelection \/ ShouldExposeTool]_vars


\* The names of DEFAULT_TOOLS.
DefaultNames == {<<DEFAULT_TOOLS[i]>> : i \in {k \in 1..Len(DEFAULT_TOOLS) : k % 2 = 1}}

\* name is one of the comma-separated items of text, blanks around it aside.
ListedIn(name, text) ==
    /\ name # <<>>
    /\ \A i \in 1..Len(name) : name[i] # ","
    /\ name[1] # " " /\ name[Len(name)] # " "
    /\ \E a \in 1..Len(text) : \E b \in a..Len(text) :
          /\ a = 1 \/ text[a - 1] = ","
          /\ b = Len(text) \/ text[b + 1] = ","
          /\ \A i \in a..b : text[i] # ","
          /\ \E p \in 0..(b - a) :
                /\ a + p + Len(name) - 1 <= b
                /\ SubSeq(text, a + p, a + p + Len(name) - 1) = name
                /\ \A i \in a..b : (i < a + p \/ i > a + p + Len(name) - 1) => text[i] = " "

ListedNames(text) ==
    {name \in {SubSeq(text, i, j) : i \in 1..Len(text), j \in 1..Len(text)} :
        ListedIn(name, text)}

\* The value is "all" up to the case of its letters.
IsAll(env) ==
    /\ env # None
    /\ Len(env) = 3
    /\ env[1] = "a" /\ env[2] \in {"l", "L"} /\ env[3] \in {"l", "L"}

\* C26 as stated: unset, the configured set is the names of DEFAULT_TOOLS;
\* set to "all", it is None and every name is exposed; set to anything else,
\* it is the set of the listed names, trimmed, empty items dropped, and a
\* name is exposed iff it is in that set.
C26_SelectionAsStated ==
    selection.pc # "idle"
    => /\ selection.env = None
          => ~selection.all /\ selection.names = DefaultNames
       /\ selection.env = <<"a", "l", "l">> => selection.all
       /\ selection.env \notin {None, <<"a", "l", "l">>}
          => ~selection.all /\ selection.names = ListedNames(selection.env)
       /\ selection.pc = "asked"
          => (selection.exposed <=> (selection.all \/ selection.tool_name \in selection.names))

\* C26, amended: as stated, with "all" recognised in any letter case.
C26_SelectionAllAnyCase ==
    selection.pc # "idle"
    => /\ selection.env = None
          => ~selection.all /\ selection.names = DefaultNames
       /\ IsAll(selection.env) => selection.all
       /\ (selection.env # None /\ ~IsAll(selection.env))
          => ~selection.all /\ selection.names = ListedNames(selection.env)
       /\ selection.pc = "asked"
          => (selection.exposed <=> (selection.all \/ selection.tool_name \in selection.names))

\* A list with blanks and an empty item was loaded and a listed name asked for.
C26_Witness ==
    /\ selection.pc = "asked"
    /\ selection.env = <<",", " ", "list_tools", " ">>
    /\ selection.names = {<<"list_tools">>}
    /\ selection.tool_name = <<"list_tools">>
    /\ selection.exposed


(***************************************************************************)
(* ToolRegistry.  _tools is the sequence of its entries in insertion       *)
(* order.  A handler is named by an identifier; an argument model is       *)
(* "None" or the model "NeedsX" with one required integer field x.         *)
(* Arguments are sets of <<key, value>> pairs.  outcome, ran and passed    *)
(* describe the latest execute: how it ended, the handler it invoked and   *)
(* the arguments that handler received.                                    *)
(***************************************************************************)
\* self._tools.get(tool_name), NoEntry standing for None
ToolEntry(tools, tool_name) ==
    IF \E k \in 1..Len(tools) : tools[k].name = tool_name
    THEN tools[CHOOSE k \in 1..Len(tools) : tools[k].name = tool_name]
    ELSE NoEntry

\* ToolRegistry.register
Register ==
    /\ \E name \in {<<"t1">>, <<"t2">>}, handler \in {"h1", "h2"},
          arg_model \in {"None", "NeedsX"} :
          LET entry == [name |-> name, handler |-> handler, arg_model |-> arg_model]
              tools == registry.tools
          IN  registry' = [registry EXCEPT
                             !.pc = "registered", !.registered = entry,
                             !.before = tools,
                             !.tools = IF ToolEntry(tools, name) # NoEntry
                                       THEN [k \in 1..Len(tools) |->
                                               IF tools[k].name = name THEN entry
                                               ELSE tools[k]]
                                       ELSE Append(tools, entry)]
    /\ UNCHANGED <<parseVars, searchVars, pollVars, listVars, storeVars,
                   jira, extracted, selection>>

\* entry.arg_model(**arguments) taken to accept everything.
ValidatedAlways(arg_model, arguments) == [ok |-> TRUE, dump |-> arguments]

\* entry.arg_model(**arguments) and validated.model_dump(): the model takes
\* its field, ignores the others and rejects a missing or non-integer x.
Validated(arg_model, arguments) ==
    LET fields == {a \in arguments : a[1] = "x" /\ a[2][1] = "num"}
    IN  [ok |-> fields # {}, dump |-> fields]

\* ToolRegistry.execute
Execute ==
    /\ \E tool_name \in {<<"t1">>, <<"t2">>, <<"t3">>},
          arguments \in {{}, {<<"x", Num(1)>>}, {<<"x", Str(<<"a">>)>>},
                         {<<"x", Num(1)>>, <<"y", Num(2)>>}, {<<"y", Num(2)>>}} :
          LET entry == ToolEntry(registry.tools, tool_name)
              called == [registry EXCEPT
                           !.pc = "executed", !.before = registry.tools,
                           !.tool_name = tool_name, !.arguments = arguments,
                           !.available = <<>>, !.ran = "none", !.passed = {}]
          IN  IF entry = NoEntry
              THEN registry' = [called EXCEPT
                      !.outcome = "Unknown tool",
                      !.available = [k \in 1..Len(registry.tools) |->
                                        registry.tools[k].name]]
              ELSE IF entry.arg_model # "None"
                      /\ ~Validated(entry.arg_model, arguments).ok
              THEN registry' = [called EXCEPT !.outcome = "Invalid arguments"]
              ELSE registry' = [called EXCEPT
                      !.outcome = "returned", !.ran = entry.handler,
                      !.passed = IF entry.arg_model # "None"
                                 THEN Validated(entry.arg_model, arguments).dump
                                 ELSE arguments]
    /\ UNCHANGED <<parseVars, searchVars, pollVars, listVars, storeVars,
                   jira, extracted, selection>>

SpecRegistry == Init /\ [][Register \/ Execute]_vars

\* The names registered before the latest call.
NamesBefore == {registry.before[k].name : k \in 1..Len(registry.before)}

\* C30: execute runs a handler only for a registered name and, when the
\* tool has an argument model, only with arguments the model accepts; an
\* unknown name ends in "Unknown tool" listing the registered names,
\* rejected arguments end in "Invalid arguments", and in both cases no
\* handler ran and the registry is as before.  register under an existing
\* name replaces that entry and leaves one entry per name.
C30_HandlerOnlyAfterValidation ==
    /\ registry.pc = "executed"
       => /\ registry.tools = registry.before
          /\ registry.ran # "none"
             => /\ registry.tool_name \in NamesBefore
                /\ \E k \in 1..Len(registry.before) :
                      /\ registry.before[k].name = registry.tool_name
                      /\ registry.before[k].handler = registry.ran
                      /\ registry.before[k].arg_model = "NeedsX"
                         => /\ <<"x", Num(1)>> \in registry.arguments
                            /\ registry.passed = {<<"x", Num(1)>>}
          /\ registry.tool_name \notin NamesBefore
             => /\ registry.outcome = "Unknown tool"
                /\ registry.ran = "none"
                /\ Len(registry.available) = Len(registry.before)
                /\ {registry.available[k] : k \in 1..Len(registry.available)} = NamesBefore
          /\ (/\ registry.tool_name \in NamesBefore
              /\ ToolEntry(registry.before, registry.tool_name).arg_model = "NeedsX"
              /\ <<"x", Num(1)>> \notin registry.arguments)
             => /\ registry.outcome = "Invalid arguments"
                /\ registry.ran = "none"
    /\ registry.pc = "registered"
       => /\ ToolEntry(registry.tools, registry.registered.name) = registry.registered
          /\ Cardinality({k \in 1..Len(registry.tools) :
                            registry.tools[k].name = registry.registered.name}) = 1
          /\ \A k \in 1..Len(registry.before) :
                registry.before[k].name # registry.registered.name
                => registry.tools[k] = registry.before[k]

\* A tool registered twice was called with a non-integer x: the second
\* registration's model rejected it and no handler ran.
C30_Witness ==
    /\ registry.pc = "executed"
    /\ Len(registry.tools) = 2
    /\ registry.tool_name = <<"t1">>
    /\ registry.tools[1] = [name |-> <<"t1">>, handler |-> "h2", arg_model |-> "NeedsX"]
    /\ registry.arguments = {<<"x", Str(<<"a">>)>>}
    /\ registry.outcome = "Invalid arguments"
    /\ registry.ran = "none"

====
